---------------------------- MODULE Spec2Model ----------------------------
(***************************************************************************)
(* A model of the core of api-extractor:                                   *)
(*   - Span             (analyzer/Span.ts): the text-preserving tree       *)
(*   - SpanModification (analyzer/Span.ts): the modified text of a tree    *)
(*   - AstDeclaration   (analyzer/AstDeclaration.ts): nesting, references  *)
(*   - ApiItemContainerMixin (api/mixins): members of an API model item    *)
(*   - ReviewFileGenerator (generators/ReviewFileGenerator.ts)             *)
(* Each component has its own variables and its own next-state relation;   *)
(* Init is the state in which nothing has been parsed, analyzed, added or  *)
(* generated yet.                                                          *)
(***************************************************************************)
EXTENDS Integers, Sequences, FiniteSets, TLC

VARIABLES
    nodes,            \* the compiler's syntax tree: ts.Node records, in source (pre-)order
    spans,            \* the Span objects built over it, one per node; <<>> before new Span(root)
    modification,     \* Span.modification, per span
    modificationCount,\* how many modifications were made on the spans
    modifiedText,     \* the last call of getModifiedText: the span and the text returned
    declaration,      \* the declaration given to _modifySpan: what the compiler and the collector know of its nodes
    modifySpanCall,   \* the call of _modifySpan on the root span, and whether it threw
    astDeclarations,  \* the AstDeclaration objects, in order of construction
    analyzed,         \* AstSymbol.analyzed, per AstSymbol
    astCall,          \* the last call made on an AstDeclaration, and whether it threw
    apiItems,         \* the ApiItem objects (each an ApiItemContainerMixin): fields per item
    apiCall,          \* the last call made on an ApiItem container, and whether it threw
    equivalence,      \* the last call of areEquivalentApiFileContents: arguments and result
    synopsis,         \* the last call of _getAedocSynopsis: the metadata fetched and the result
    review,           \* the last call of generateReviewFileContent: the collector and the output
    exitCode,         \* process.exitCode
    execution         \* the call of RunAction.onExecute: what it found, and whether it threw

spanVars == <<nodes, spans, modification, modificationCount>>

modifySpanVars == <<declaration, modifySpanCall>>

astVars == <<astDeclarations, analyzed, astCall>>

apiVars == <<apiItems, apiCall>>

reviewVars == <<equivalence, synopsis, review>>

runVars == <<exitCode, execution>>

vars == <<nodes, spans, modification, modificationCount, modifiedText, declaration, modifySpanCall, astDeclarations, analyzed, astCall, apiItems, apiCall,
          equivalence, synopsis, review, exitCode, execution>>

(***************************************************************************)
(* Bounds of the model.                                                    *)
(***************************************************************************)
\* Length of the source file's text.
MaxLen == 3
\* Number of nodes of a syntax tree.
MaxNodes == 4
\* Number of AstDeclaration objects.
MaxAstDeclarations == 2
\* Length of _analyzedChildren up to which _notifyChildAttach is called directly.
MaxAttach == 1
\* Length of options.members passed to the constructor of a container.
MaxOptionsMembers == 2
\* Number of modifications made on the spans of a tree.
MaxModifications == 3
\* Length of a file content compared by areEquivalentApiFileContents.
MaxContentLen == 3
\* Number of entities of a collector.
MaxEntities == 2
\* Number of AstDeclarations of one AstSymbol.
MaxDeclarations == 2

(***************************************************************************)
(* Generic helpers.                                                        *)
(***************************************************************************)
Indices(s) == [i \in 1..Len(s) |-> i]

Last(s) == s[Len(s)]

Range(s) == {s[i] : i \in 1..Len(s)}

NoDuplicates(s) == \A i, j \in 1..Len(s) : s[i] = s[j] => i = j

\* Set.prototype.add on a Set kept in insertion order.
SetAdd(s, x) == IF x \in Range(s) THEN s ELSE Append(s, x)

(***************************************************************************)
(* The source file.  Its characters are pairwise distinct (the character   *)
(* at offset i is i), so that a character lost, duplicated or moved by a   *)
(* Span operation is visible in the result.  The Span code never looks at  *)
(* a character, only at offsets and at whether a substring is empty.       *)
(***************************************************************************)
CharacterAt(offset) == offset

SourceText == [i \in 1..MaxLen |-> CharacterAt(i - 1)]

\* Span._getSubstring: text.substring(startIndex, endIndex), '' when equal.
GetSubstring(startIndex, endIndex) ==
    IF startIndex = endIndex THEN <<>>
    ELSE [k \in 1..(endIndex - startIndex) |-> CharacterAt(startIndex + k - 1)]

(***************************************************************************)
(* The syntax tree (ts.Node).  nodes[n].parent is the index of the parent  *)
(* node (0 for the root), nodes[n].pos is node.getStart(), nodes[n].end is *)
(* node.end.  Nodes are numbered in source order, so node.getChildren()    *)
(* is the nodes whose parent is n, by increasing number.                   *)
(***************************************************************************)
Node(p, s, e) == [parent |-> p, pos |-> s, end |-> e]

GetChildren(ns, n) == SelectSeq(Indices(ns), LAMBDA i : ns[i].parent = n)

\* The ancestors of node n, nearest first.
RECURSIVE NodeAncestors(_, _)
NodeAncestors(ns, n) ==
    IF ns[n].parent = 0 THEN <<>>
    ELSE <<ns[n].parent>> \o NodeAncestors(ns, ns[n].parent)

\* The parser adds the next node in source order: the root, or a new last
\* child of the node added last or of one of its ancestors.  A child lies
\* inside its parent's extent and starts at or after the end of the sibling
\* before it.
CanAddNode(ns, p, s, e) ==
    /\ s <= e
    /\ IF ns = <<>> THEN p = 0
       ELSE /\ p \in {Len(ns)} \cup {NodeAncestors(ns, Len(ns))[i] :
                                        i \in 1..Len(NodeAncestors(ns, Len(ns)))}
            /\ ns[p].pos <= s
            /\ e <= ns[p].end
            /\ LET kids == GetChildren(ns, p)
               IN  kids # <<>> => ns[Last(kids)].end <= s

AddNode(p, s, e) ==
    /\ spans = <<>>
    /\ Len(nodes) < MaxNodes
    /\ CanAddNode(nodes, p, s, e)
    /\ nodes' = Append(nodes, Node(p, s, e))
    /\ UNCHANGED <<runVars, modifiedText, spans, modification, modificationCount, modifySpanVars, astVars, apiVars, reviewVars>>

(***************************************************************************)
(* Calls: the operation last called on an object, and its outcome.         *)
(***************************************************************************)
NoCall == [op |-> "none", target |-> 0, arg |-> 0, threw |-> FALSE]

Call(op, target, arg, threw) == [op |-> op, target |-> target, arg |-> arg, threw |-> threw]

(***************************************************************************)
(* SpanModification.  An optional value (string | undefined) is a sequence *)
(* of at most one element: <<>> is undefined, <<text>> is the string text. *)
(***************************************************************************)
\* Faulty variant of ResetModification: omitSeparatorAfter is left set.
ResetModificationOmittingSeparator ==
    [omitChildren |-> FALSE, omitSeparatorAfter |-> TRUE, sortChildren |-> FALSE,
     sortKey |-> <<>>, _prefix |-> <<>>, _suffix |-> <<>>]

\* SpanModification.reset: the fields of a modification that changes nothing.
ResetModification ==
    [omitChildren |-> FALSE, omitSeparatorAfter |-> FALSE, sortChildren |-> FALSE,
     sortKey |-> <<>>, _prefix |-> <<>>, _suffix |-> <<>>]

(***************************************************************************)
(* Span.constructor.                                                       *)
(***************************************************************************)
NewSpanFields(node) ==
    [startIndex |-> node.pos, endIndex |-> node.end,
     separatorStartIndex |-> 0, separatorEndIndex |-> 0, threw |-> FALSE]

\* Faulty variant of SeparatorRecipient: pushes the gap down without looking for a suffix.
RECURSIVE SeparatorRecipientIgnoringSuffix(_, _, _)
SeparatorRecipientIgnoringSuffix(ns, sps, r) ==
    LET kids == GetChildren(ns, r)
    IN  IF kids = <<>> THEN r
        ELSE SeparatorRecipientIgnoringSuffix(ns, sps, Last(kids))

\* The deepest span at the end of previousChildSpan that has no suffix.
RECURSIVE SeparatorRecipient(_, _, _)
SeparatorRecipient(ns, sps, r) ==
    LET kids == GetChildren(ns, r)
    IN  IF kids = <<>> THEN r
        ELSE IF sps[Last(kids)].endIndex # sps[r].endIndex THEN r
        ELSE SeparatorRecipient(ns, sps, Last(kids))

\* Faulty variant of AssignSeparator: the separator starts at the start of the
\* preceding span instead of at its end.
AssignSeparatorFromStart(ns, sps, prev, child) ==
    LET recipient == SeparatorRecipient(ns, sps, prev)
    IN  [sps EXCEPT ![recipient].separatorStartIndex = sps[prev].startIndex,
                    ![recipient].separatorEndIndex = sps[child].startIndex]

\* The leftover text between previousChildSpan and childSpan becomes the
\* separator of the recipient.
AssignSeparator(ns, sps, prev, child) ==
    LET recipient == SeparatorRecipient(ns, sps, prev)
    IN  [sps EXCEPT ![recipient].separatorStartIndex = sps[prev].endIndex,
                    ![recipient].separatorEndIndex = sps[child].startIndex]

RECURSIVE SpanConstructor(_, _, _)
RECURSIVE SpanConstructorLoop(_, _, _, _, _)

\* One iteration of the constructor's loop over node.getChildren(), for the
\* k-th child, and the iterations after it.  A throw ends the construction.
SpanConstructorLoop(ns, n, kids, k, sps) ==
    IF k > Len(kids) THEN sps
    ELSE
      LET c  == kids[k]
          s1 == SpanConstructor(ns, c, sps)
          s2 == IF s1[c].startIndex < s1[n].startIndex
                THEN [s1 EXCEPT ![n].startIndex = s1[c].startIndex]
                ELSE s1
      IN  IF s1[c].threw THEN [s1 EXCEPT ![n].threw = TRUE]
          ELSE IF s2[c].endIndex > s2[n].endIndex
          THEN [s2 EXCEPT ![n].endIndex = s2[c].endIndex, ![n].threw = TRUE]
          ELSE
            LET s3 == IF k > 1 /\ s2[kids[k - 1]].endIndex < s2[c].startIndex
                      THEN AssignSeparator(ns, s2, kids[k - 1], c)
                      ELSE s2
            IN  SpanConstructorLoop(ns, n, kids, k + 1, s3)

\* new Span(node): sps with the Span of node n and of its descendants built.
SpanConstructor(ns, n, sps) ==
    SpanConstructorLoop(ns, n, GetChildren(ns, n), 1,
                        [sps EXCEPT ![n] = NewSpanFields(ns[n])])

\* new Span(root) on the parsed tree.
NewSpan ==
    /\ nodes # <<>>
    /\ spans = <<>>
    /\ spans' = SpanConstructor(nodes, 1, [n \in 1..Len(nodes) |-> NewSpanFields(nodes[n])])
    /\ modification' = [n \in 1..Len(nodes) |-> ResetModification]
    /\ UNCHANGED <<runVars, modifiedText, nodes, modificationCount, modifySpanVars, astVars, apiVars, reviewVars>>

(***************************************************************************)
(* Span's getters.                                                         *)
(***************************************************************************)
\* Span.children
Children(n) == GetChildren(nodes, n)

\* Span.prefix
Prefix(n) ==
    IF Children(n) # <<>>
    THEN GetSubstring(spans[n].startIndex, spans[Children(n)[1]].startIndex)
    ELSE GetSubstring(spans[n].startIndex, spans[n].endIndex)

\* Span.suffix
Suffix(n) ==
    IF Children(n) # <<>>
    THEN GetSubstring(spans[Last(Children(n))].endIndex, spans[n].endIndex)
    ELSE <<>>

\* Span.separator
Separator(n) == GetSubstring(spans[n].separatorStartIndex, spans[n].separatorEndIndex)

\* Span.getLastInnerSeparator
RECURSIVE GetLastInnerSeparator(_)
GetLastInnerSeparator(n) ==
    IF Separator(n) # <<>> THEN Separator(n)
    ELSE IF Children(n) # <<>> THEN GetLastInnerSeparator(Last(Children(n)))
    ELSE <<>>

RECURSIVE GetText(_)
RECURSIVE GetTextOfChildren(_, _)
GetTextOfChildren(kids, k) ==
    IF k > Len(kids) THEN <<>>
    ELSE GetText(kids[k]) \o GetTextOfChildren(kids, k + 1)

\* Span.getText
GetText(n) ==
    Prefix(n) \o GetTextOfChildren(Children(n), 1) \o Suffix(n) \o Separator(n)

(***************************************************************************)
(* Source files whose spans are modified.  Each is the pre-order node list *)
(* of a small declaration: a root, a list of members, and the tokens       *)
(* around them; the characters between two members are separators.         *)
(***************************************************************************)
\* root [0,8) { list [1,6) { three members with one character after each } closing token }
ThreeMembers ==
    << Node(0, 0, 8), Node(1, 1, 6), Node(2, 1, 2), Node(2, 3, 4), Node(2, 5, 6), Node(1, 7, 8) >>

\* the first of two members has a child of its own, which receives the separator
NestedMember ==
    << Node(0, 0, 6), Node(1, 1, 4), Node(2, 1, 2), Node(3, 1, 2), Node(2, 3, 4), Node(1, 5, 6) >>

\* the first of three members has a suffix, so that it keeps its own separator
MemberWithSuffix ==
    << Node(0, 0, 6), Node(1, 0, 2), Node(2, 0, 1), Node(1, 3, 4), Node(1, 5, 6) >>

\* three adjacent members, no separator anywhere
AdjacentMembers ==
    << Node(0, 0, 3), Node(1, 0, 1), Node(1, 1, 2), Node(1, 2, 3) >>

SampleTrees == {ThreeMembers, NestedMember, MemberWithSuffix, AdjacentMembers}

\* The compiler hands over the syntax tree of one of the source files.
ParseSample(tree) ==
    /\ nodes = <<>>
    /\ nodes' = tree
    /\ UNCHANGED <<runVars, modifiedText, spans, modification, modificationCount, modifySpanVars, astVars, apiVars, reviewVars>>

(***************************************************************************)
(* SpanModification: the operations a caller makes on span.modification.   *)
(***************************************************************************)
\* Sort keys, as sequences of character codes.
SortKeys == { <<1>>, <<1, 1>>, <<2>> }

Modify(n, fields) ==
    /\ spans # <<>>
    /\ modifiedText = NoCall
    /\ modificationCount < MaxModifications
    /\ modification' = [modification EXCEPT ![n] = fields]
    /\ modificationCount' = modificationCount + 1
    /\ UNCHANGED <<runVars, modifiedText, nodes, spans, modifySpanVars, astVars, apiVars, reviewVars>>

\* SpanModification.skipAll
SkipAll(n) ==
    Modify(n, [modification[n] EXCEPT !._prefix = << <<>> >>, !._suffix = << <<>> >>,
                                      !.omitChildren = TRUE, !.omitSeparatorAfter = TRUE])

\* SpanModification.reset
Reset(n) == Modify(n, ResetModification)

\* span.modification.sortChildren = true
SetSortChildren(n) == Modify(n, [modification[n] EXCEPT !.sortChildren = TRUE])

\* span.modification.sortKey = key
SetSortKey(n, key) == Modify(n, [modification[n] EXCEPT !.sortKey = <<key>>])

\* SpanModification.prefix (getter)
ModificationPrefix(n) ==
    IF modification[n]._prefix # <<>> THEN modification[n]._prefix[1] ELSE Prefix(n)

\* SpanModification.suffix (getter)
ModificationSuffix(n) ==
    IF modification[n]._suffix # <<>> THEN modification[n]._suffix[1] ELSE Suffix(n)

(***************************************************************************)
(* Sort.sortBy and Sort.compareByValue.                                    *)
(***************************************************************************)
\* x < y for two strings: by the first character that differs, a proper
\* prefix first.
RECURSIVE StringLess(_, _)
StringLess(x, y) ==
    IF y = <<>> THEN FALSE
    ELSE IF x = <<>> THEN TRUE
    ELSE IF x[1] # y[1] THEN x[1] < y[1]
    ELSE StringLess(Tail(x), Tail(y))

\* Sort.compareByValue on two keys that are strings or undefined: a missing
\* key compares greater than every string.
CompareByValue(x, y) ==
    IF x = y THEN 0
    ELSE IF x = <<>> THEN 1
    ELSE IF y = <<>> THEN -1
    ELSE IF StringLess(x[1], y[1]) THEN -1
    ELSE 1

\* Sort.sortBy: the stable sort of the array by the keys of its elements;
\* keySelector is a function from the elements to their keys.
SortBy(array, keySelector) ==
    LET Before(i, j) ==
            LET c == CompareByValue(keySelector[array[i]], keySelector[array[j]])
            IN  c < 0 \/ (c = 0 /\ i < j)
        Rank(j) == 1 + Cardinality({i \in 1..Len(array) : Before(i, j)})
    IN  [r \in 1..Len(array) |-> array[CHOOSE j \in 1..Len(array) : Rank(j) = r]]

(***************************************************************************)
(* Span.getModifiedText.  separatorOverride is a string, <<>> when it is   *)
(* undefined or empty (the code only tests whether it is truthy).          *)
(***************************************************************************)
\* Faulty variant of SortedChildren: the copy of the children is not sorted.
SortedChildrenUnsorted(n) == Children(n)

\* Faulty variant of SortedChildren: the children are sorted from their
\* reversed order, so that children with equal keys change places.
SortedChildrenOfReversed(n) ==
    LET kids == Children(n)
    IN  SortBy([i \in 1..Len(kids) |-> kids[Len(kids) + 1 - i]],
               [x \in Range(kids) |-> modification[x].sortKey])

\* Faulty variant of SortedChildren: the key selector gives the empty string
\* for a child without key (x => x.modification.sortKey || '').
SortedChildrenByKeyOrEmpty(n) ==
    SortBy(Children(n),
           [x \in Range(Children(n)) |->
               IF modification[x].sortKey = <<>> THEN << <<>> >> ELSE modification[x].sortKey])

\* the sortedChildren of _writeModifiedText
SortedChildren(n) ==
    SortBy(Children(n), [x \in Range(Children(n)) |-> modification[x].sortKey])

\* Faulty variant of SeparatorAfter: a leaf without separator does not write the
\* override.
SeparatorAfterOfSeparatedOnly(n, separatorOverride) ==
    IF separatorOverride # <<>>
    THEN IF Separator(n) # <<>> THEN separatorOverride ELSE <<>>
    ELSE IF ~modification[n].omitSeparatorAfter THEN Separator(n) ELSE <<>>

\* The end of _writeModifiedText: what the span appends after its suffix.
SeparatorAfter(n, separatorOverride) ==
    IF separatorOverride # <<>>
    THEN IF Separator(n) # <<>> \/ Len(Children(n)) = 0 THEN separatorOverride ELSE <<>>
    ELSE IF ~modification[n].omitSeparatorAfter THEN Separator(n) ELSE <<>>

RECURSIVE WriteModifiedText(_, _)
RECURSIVE WriteSortedChildren(_, _, _)
RECURSIVE WriteChildren(_, _, _, _)

\* the loop over sortedChildren
WriteSortedChildren(n, sortedChildren, i) ==
    IF i > Len(sortedChildren) THEN <<>>
    ELSE LET firstSeparator == GetLastInnerSeparator(Children(n)[1])
             lastSeparator == GetLastInnerSeparator(Last(Children(n)))
             separatorOverride == IF i < Len(sortedChildren) THEN firstSeparator
                                  ELSE lastSeparator
         IN  WriteModifiedText(sortedChildren[i], separatorOverride)
                 \o WriteSortedChildren(n, sortedChildren, i + 1)

\* the two loops over this.children: with a separatorOverride only the last
\* child inherits it, and only when this span has no separator of its own
WriteChildren(n, kids, i, separatorOverride) ==
    IF i > Len(kids) THEN <<>>
    ELSE LET childOverride ==
                 IF separatorOverride # <<>> /\ (i < Len(kids) \/ Separator(n) # <<>>)
                 THEN <<>>
                 ELSE separatorOverride
         IN  WriteModifiedText(kids[i], childOverride)
                 \o WriteChildren(n, kids, i + 1, separatorOverride)

\* Span._writeModifiedText: what it appends to options.output
WriteModifiedText(n, separatorOverride) ==
    LET childCount == Len(Children(n))
        childrenText ==
            IF modification[n].omitChildren THEN <<>>
            ELSE IF modification[n].sortChildren /\ childCount > 1
                 THEN WriteSortedChildren(n, SortedChildren(n), 1)
                 ELSE WriteChildren(n, Children(n), 1, separatorOverride)
    IN  ModificationPrefix(n) \o childrenText \o ModificationSuffix(n)
            \o SeparatorAfter(n, separatorOverride)

\* Span.getModifiedText
GetModifiedText(n) == WriteModifiedText(n, <<>>)

\* The span that generateReviewFileContent writes with writeModifiedText: the
\* one of the declaration's root node.
RootSpan == 1

\* Faulty variant of GetModifiedTextCall: the children of the span are sorted
\* in place (when they are leaves), so that they change places in the tree.
GetModifiedTextCallSortingInPlace(n) ==
    LET kids == Children(n)
        sortedChildren == SortedChildren(n)
        inPlace == /\ modification[n].sortChildren /\ ~modification[n].omitChildren
                   /\ Len(kids) > 1
                   /\ \A c \in Range(kids) : Children(c) = <<>>
        Moved(objects) ==
            [i \in 1..Len(objects) |->
                IF inPlace /\ i \in Range(kids)
                THEN objects[sortedChildren[CHOOSE k \in 1..Len(kids) : kids[k] = i]]
                ELSE objects[i]]
    IN  /\ spans # <<>>
        /\ modifiedText' = Call("getModifiedText", n, GetModifiedText(n), FALSE)
        /\ nodes' = Moved(nodes)
        /\ spans' = Moved(spans)
        /\ modification' = Moved(modification)
        /\ UNCHANGED <<runVars, modificationCount, modifySpanVars, astVars, apiVars, reviewVars>>

\* A call of span.getModifiedText() (writeModifiedText is the same, on an output
\* given by the caller), made once the modifications are done:
\* _writeModifiedText assigns to its output and to its local variables only.
GetModifiedTextCall(n) ==
    /\ spans # <<>>
    /\ modifiedText' = Call("getModifiedText", n, GetModifiedText(n), FALSE)
    /\ UNCHANGED <<runVars, spanVars, modifySpanVars, astVars, apiVars, reviewVars>>

(***************************************************************************)
(* AstDeclaration.  astDeclarations[d].parent is the index of the parent   *)
(* AstDeclaration (0 for undefined).  _analyzedReferencedAstSymbolsSet is  *)
(* a Set, kept here in insertion order.                                    *)
(***************************************************************************)
AstSymbols == {"A", "B", "C"}

\* The symbols whose declarations are constructed; "C" is declared elsewhere.
DeclaredAstSymbols == {"A", "B"}

\* The symbols that declarations are found to reference: "A" is the symbol of
\* the declaration itself, of its parent, or of an unrelated declaration; "C" is
\* never the symbol of a declaration of the tree.
NotifiedAstSymbols == {"A", "C"}

\* An AstDeclaration and its ancestors, innermost first: the chain that
\* "current = current.parent" walks.
RECURSIVE ParentChain(_, _)
ParentChain(ds, d) ==
    IF d = 0 THEN <<>> ELSE <<d>> \o ParentChain(ds, ds[d].parent)

\* The proper ancestors of d.
AstAncestors(ds, d) == Range(ParentChain(ds, ds[d].parent))

\* Faulty variant of ChildAttachCheck: AstSymbol.analyzed is not looked at.
ChildAttachCheckParentOnly(ds, d, childParent) ==
    IF childParent # d THEN "invalid" ELSE "ok"

\* AstDeclaration._notifyChildAttach: "invalid" when child.parent is not this,
\* "analyzed" when analysis is already complete, else "ok".
ChildAttachCheck(ds, d, childParent) ==
    IF childParent # d THEN "invalid"
    ELSE IF analyzed[ds[d].astSymbol] THEN "analyzed"
    ELSE "ok"

\* The constructor: new AstDeclaration({astSymbol, parent}).  When
\* parent._notifyChildAttach(this) throws, no AstDeclaration results.
NewAstDeclaration(sym, parent) ==
    LET d == Len(astDeclarations) + 1
        check == IF parent = 0 THEN "ok" ELSE ChildAttachCheck(astDeclarations, parent, parent)
        created == Append(astDeclarations,
                          [astSymbol |-> sym, parent |-> parent,
                           analyzedChildren |-> <<>>,
                           analyzedReferencedAstSymbolsSet |-> <<>>])
    IN  /\ Len(astDeclarations) < MaxAstDeclarations
        /\ parent \in 0..Len(astDeclarations)
        /\ astDeclarations' =
             IF check # "ok" THEN astDeclarations
             ELSE IF parent = 0 THEN created
             ELSE [created EXCEPT ![parent].analyzedChildren = Append(@, d)]
        /\ astCall' = Call("new", parent, 0, check # "ok")
        /\ UNCHANGED <<runVars, modifiedText, analyzed, spanVars, modifySpanVars, apiVars, reviewVars>>

\* A call of parent._notifyChildAttach(child) made outside the constructor
\* (MaxAttach caps the calls that add a child).
NotifyChildAttach(d, child) ==
    LET check == ChildAttachCheck(astDeclarations, d, astDeclarations[child].parent)
    IN  /\ d \in 1..Len(astDeclarations)
        /\ child \in 1..Len(astDeclarations)
        /\ check = "ok" => Len(astDeclarations[d].analyzedChildren) < MaxAttach
        /\ astDeclarations' =
             IF check # "ok" THEN astDeclarations
             ELSE [astDeclarations EXCEPT ![d].analyzedChildren = Append(@, child)]
        /\ astCall' = Call("_notifyChildAttach", d, child, check # "ok")
        /\ UNCHANGED <<runVars, modifiedText, analyzed, spanVars, modifySpanVars, apiVars, reviewVars>>

\* Faulty variant of ReferenceIsRedundant: only the declaration itself is looked at.
ReferenceIsRedundantHere(ds, d, sym) ==
    \/ sym \in Range(ds[d].analyzedReferencedAstSymbolsSet)
    \/ sym = ds[d].astSymbol

\* Faulty variant of ReferenceIsRedundant: the symbols of the parents are not looked at.
ReferenceIsAlreadyRecorded(ds, d, sym) ==
    \E current \in Range(ParentChain(ds, d)) :
        sym \in Range(ds[current].analyzedReferencedAstSymbolsSet)

\* The loop of _notifyReferencedAstSymbol: the symbol is already referenced by
\* this declaration or a parent, or is the symbol of one of them.
ReferenceIsRedundant(ds, d, sym) ==
    \E current \in Range(ParentChain(ds, d)) :
        \/ sym \in Range(ds[current].analyzedReferencedAstSymbolsSet)
        \/ sym = ds[current].astSymbol

\* AstDeclaration._notifyReferencedAstSymbol
NotifyReferencedAstSymbol(d, sym) ==
    /\ d \in 1..Len(astDeclarations)
    /\ astDeclarations' =
         IF analyzed[astDeclarations[d].astSymbol] THEN astDeclarations
         ELSE IF ReferenceIsRedundant(astDeclarations, d, sym) THEN astDeclarations
         ELSE [astDeclarations EXCEPT
                 ![d].analyzedReferencedAstSymbolsSet = SetAdd(@, sym)]
    /\ astCall' = Call("_notifyReferencedAstSymbol", d, 0,
                       analyzed[astDeclarations[d].astSymbol])
    /\ UNCHANGED <<runVars, modifiedText, analyzed, spanVars, modifySpanVars, apiVars, reviewVars>>

\* The analyzer marks an AstSymbol analyzed (false -> true, never back).
NotifyAnalyzed(sym) ==
    /\ ~analyzed[sym]
    /\ analyzed' = [analyzed EXCEPT ![sym] = TRUE]
    /\ UNCHANGED <<runVars, modifiedText, astDeclarations, astCall, spanVars, modifySpanVars, apiVars, reviewVars>>

\* Faulty variant of AstChildren: AstSymbol.analyzed is not looked at.
AstChildrenBeforeAnalysis(d) == astDeclarations[d].analyzedChildren

\* AstDeclaration.children
AstChildren(d) ==
    IF analyzed[astDeclarations[d].astSymbol]
    THEN astDeclarations[d].analyzedChildren ELSE <<>>

\* AstDeclaration.referencedAstSymbols
ReferencedAstSymbols(d) ==
    IF analyzed[astDeclarations[d].astSymbol]
    THEN astDeclarations[d].analyzedReferencedAstSymbolsSet ELSE <<>>

(***************************************************************************)
(* ApiItemContainerMixin.  Every ApiItem of the model is a container (an   *)
(* ApiNamespace or another mixed class); its name and kind are fixed at    *)
(* construction.  Items 1 and 2 are two objects with the same name and     *)
(* kind, item 3 has the name of item 1 and another kind.  sortKey is what  *)
(* the item's getSortKey() returns: the same for the first three items and *)
(* a smaller key for the last.                                             *)
(***************************************************************************)
ApiItemTable ==
    << [name |-> "a", kind |-> "namespace", sortKey |-> "b"],
       [name |-> "a", kind |-> "namespace", sortKey |-> "b"],
       [name |-> "a", kind |-> "class", sortKey |-> "b"],
       [name |-> "b", kind |-> "namespace", sortKey |-> "a"] >>

ApiItemIds == 1..Len(ApiItemTable)

\* ApiNamespace.getCanonicalReference: `(${name}:namespace)`, and likewise for
\* the other kinds.
GetCanonicalReference(name, kind) == <<"(", name, ":", kind, ")">>

\* ApiItem.canonicalReference
CanonicalReference(m) == GetCanonicalReference(ApiItemTable[m].name, ApiItemTable[m].kind)

CanonicalReferences == {CanonicalReference(m) : m \in ApiItemIds}

\* An ApiItem that has not been constructed yet; parent 0 is undefined, and in
\* membersByCanonicalReference 0 stands for "no entry".  membersSorted and
\* membersByName are optional values: <<>> is undefined, which is how the
\* constructor leaves them.
NoApiItem ==
    [constructed |-> FALSE, parent |-> 0, members |-> <<>>,
     membersSorted |-> <<>>,
     membersByCanonicalReference |-> [r \in CanonicalReferences |-> 0],
     membersByName |-> <<>>]

\* The fields after super(...args) and the two assignments of the constructor.
ConstructedApiItem == [NoApiItem EXCEPT !.constructed = TRUE]

\* Faulty variant of AddMemberCheck: the index of canonical references is not
\* looked at.
AddMemberCheckParentOnly(items, c, m) ==
    IF items[m].parent # 0 THEN "hasParent" ELSE "ok"

\* Faulty variant of AddMemberCheck: the existing parent of the member is not looked at.
AddMemberCheckReferenceOnly(items, c, m) ==
    IF items[c].membersByCanonicalReference[CanonicalReference(m)] # 0 THEN "duplicate"
    ELSE "ok"

\* The two checks of addMember: which error it throws, or "ok".
AddMemberCheck(items, c, m) ==
    IF items[c].membersByCanonicalReference[CanonicalReference(m)] # 0 THEN "duplicate"
    ELSE IF items[m].parent # 0 THEN "hasParent"
    ELSE "ok"

\* Faulty variant of AddMemberEffect: membersSorted is left as it is.
AddMemberEffectKeepingSorted(items, c, m) ==
    LET added == [items EXCEPT
                    ![c].members = Append(@, m),
                    ![c].membersByName = <<>>,
                    ![c].membersByCanonicalReference[CanonicalReference(m)] = m]
    IN  [added EXCEPT ![m].parent = c]

\* Faulty variant of AddMemberEffect: the lookup by name is not invalidated.
AddMemberEffectKeepingLookup(items, c, m) ==
    LET added == [items EXCEPT
                    ![c].members = Append(@, m),
                    ![c].membersSorted = <<FALSE>>,
                    ![c].membersByCanonicalReference[CanonicalReference(m)] = m]
    IN  [added EXCEPT ![m].parent = c]

\* The assignments of addMember, made when neither check throws.  The last one
\* is on the member, which may be the container itself.
AddMemberEffect(items, c, m) ==
    LET added == [items EXCEPT
                    ![c].members = Append(@, m),
                    ![c].membersByName = <<>>,
                    ![c].membersSorted = <<FALSE>>,
                    ![c].membersByCanonicalReference[CanonicalReference(m)] = m]
    IN  [added EXCEPT ![m].parent = c]

\* The loop of the constructor over options.members, from the k-th member on:
\* <<items, threw>>.  A throw of addMember ends the construction.
RECURSIVE AddOptionsMembers(_, _, _, _)
AddOptionsMembers(items, c, ms, k) ==
    IF k > Len(ms) THEN <<items, FALSE>>
    ELSE IF AddMemberCheck(items, c, ms[k]) # "ok" THEN <<items, TRUE>>
    ELSE AddOptionsMembers(AddMemberEffect(items, c, ms[k]), c, ms, k + 1)

\* new MixedClass({members: ms}).  Members added before a throw keep the
\* half-built container as their parent.
NewApiItem(c, ms) ==
    LET built == AddOptionsMembers([apiItems EXCEPT ![c] = ConstructedApiItem], c, ms, 1)
    IN  /\ ~apiItems[c].constructed
        /\ \A k \in 1..Len(ms) : apiItems[ms[k]].constructed
        /\ apiItems' = built[1]
        /\ apiCall' = Call("new", c, ms, built[2])
        /\ UNCHANGED <<runVars, modifiedText, spanVars, modifySpanVars, astVars, reviewVars>>

\* Faulty variant of AddMember: the member is pushed on the list before its
\* existing parent is looked at.
AddMemberPushingBeforeParentCheck(c, m) ==
    /\ apiItems[c].constructed
    /\ apiItems[m].constructed
    /\ apiItems' = IF AddMemberCheck(apiItems, c, m) = "ok"
                   THEN AddMemberEffect(apiItems, c, m)
                   ELSE IF AddMemberCheck(apiItems, c, m) = "hasParent"
                   THEN [apiItems EXCEPT ![c].members = Append(@, m)]
                   ELSE apiItems
    /\ apiCall' = Call("addMember", c, m, AddMemberCheck(apiItems, c, m) # "ok")
    /\ UNCHANGED <<runVars, modifiedText, spanVars, modifySpanVars, astVars, reviewVars>>

\* MixedClass.addMember
AddMember(c, m) ==
    /\ apiItems[c].constructed
    /\ apiItems[m].constructed
    /\ apiItems' = IF AddMemberCheck(apiItems, c, m) = "ok"
                   THEN AddMemberEffect(apiItems, c, m) ELSE apiItems
    /\ apiCall' = Call("addMember", c, m, AddMemberCheck(apiItems, c, m) # "ok")
    /\ UNCHANGED <<runVars, modifiedText, spanVars, modifySpanVars, astVars, reviewVars>>

\* x.getSortKey(): a string of one lower-case letter in the model.
GetSortKey(m) == ApiItemTable[m].sortKey

\* The lower-case letters of the sort keys, in the order of the locale.
Alphabet == <<"a", "b", "c">>

\* String.prototype.localeCompare on two strings of one lower-case letter.
LocaleCompare(x, y) ==
    LET Place(ch) == CHOOSE i \in 1..Len(Alphabet) : Alphabet[i] = ch
    IN  IF Place(x) < Place(y) THEN -1 ELSE IF Place(x) > Place(y) THEN 1 ELSE 0

\* this[_members].sort((x, y) => x.getSortKey().localeCompare(y.getSortKey())):
\* the array sorted by the comparison, elements that compare equal in their
\* former order.
SortMembers(array) ==
    LET Before(i, j) ==
            LET c == LocaleCompare(GetSortKey(array[i]), GetSortKey(array[j]))
            IN  c < 0 \/ (c = 0 /\ i < j)
        Rank(j) == 1 + Cardinality({i \in 1..Len(array) : Before(i, j)})
    IN  [r \in 1..Len(array) |-> array[CHOOSE j \in 1..Len(array) : Rank(j) = r]]

\* MixedClass.members (getter): sorts the list in place unless membersSorted is
\* true, and returns the list itself.
Members(c) ==
    LET sorted == IF apiItems[c].membersSorted # <<TRUE>>
                  THEN [apiItems EXCEPT ![c].members = SortMembers(@),
                                        ![c].membersSorted = <<TRUE>>]
                  ELSE apiItems
    IN  /\ apiItems[c].constructed
        /\ apiItems' = sorted
        /\ apiCall' = Call("members", c, sorted[c].members, FALSE)
        /\ UNCHANGED <<runVars, modifiedText, spanVars, modifySpanVars, astVars, reviewVars>>

\* MixedClass.tryGetMember: the member, or 0 for undefined.
TryGetMember(c, canonicalReference) ==
    apiItems[c].membersByCanonicalReference[canonicalReference]

\* The names of the model's items.
ApiItemNames == {ApiItemTable[m].name : m \in ApiItemIds}

\* The map that findMembersByName builds: for every name the members of that
\* name in the order of the list; <<>> stands for "no entry".
BuildMembersByName(members) ==
    [name \in ApiItemNames |-> SelectSeq(members, LAMBDA m : ApiItemTable[m].name = name)]

\* MixedClass.findMembersByName: builds the lookup unless there is one, and
\* returns its list for the name, or an empty list; arg is <<name, result>>.
FindMembersByName(c, name) ==
    LET map == IF apiItems[c].membersByName = <<>>
               THEN BuildMembersByName(apiItems[c].members)
               ELSE apiItems[c].membersByName[1]
    IN  /\ apiItems[c].constructed
        /\ apiItems' = [apiItems EXCEPT ![c].membersByName = <<map>>]
        /\ apiCall' = Call("findMembersByName", c, <<name, map[name]>>, FALSE)
        /\ UNCHANGED <<runVars, modifiedText, spanVars, modifySpanVars, astVars, reviewVars>>

(***************************************************************************)
(* ReviewFileGenerator.areEquivalentApiFileContents.  A string is a        *)
(* sequence of characters.                                                 *)
(***************************************************************************)
\* The characters file contents are made of in the model.
Characters == {"a", "b", " ", "\n", "\f"}

\* The characters the regular expression class \s matches: space, tab, CR, LF,
\* and also form feed (and vertical tab, no-break space, the byte order mark
\* and the Unicode space separators, which the model's alphabet does not have).
RegExpWhitespace == {" ", "\t", "\r", "\n", "\f"}

\* The index after the run of characters of class that starts at index i.
RECURSIVE EndOfRun(_, _, _)
EndOfRun(s, i, class) ==
    IF i <= Len(s) /\ s[i] \in class THEN EndOfRun(s, i + 1, class) ELSE i

\* Faulty variant of ReplaceRuns: /[\s]/g, every whitespace character becomes a space.
RECURSIVE ReplaceEach(_, _, _)
ReplaceEach(s, i, class) ==
    IF i > Len(s) THEN <<>>
    ELSE <<IF s[i] \in class THEN " " ELSE s[i]>> \o ReplaceEach(s, i + 1, class)

\* s.replace(/[class]+/g, ' ') from index i on: the matches are found from left
\* to right, each as long as possible.
RECURSIVE ReplaceRuns(_, _, _)
ReplaceRuns(s, i, class) ==
    IF i > Len(s) THEN <<>>
    ELSE IF s[i] \in class THEN <<" ">> \o ReplaceRuns(s, EndOfRun(s, i, class), class)
    ELSE <<s[i]>> \o ReplaceRuns(s, i + 1, class)

\* Faulty variant of NormalizeFileContent: /[ \t]+/g, line ends are not whitespace.
NormalizeBlanksOnly(content) == ReplaceRuns(content, 1, {" ", "\t"})

\* fileContent.replace(/[\s]+/g, ' ')
NormalizeFileContent(content) == ReplaceRuns(content, 1, RegExpWhitespace)

\* ReviewFileGenerator.areEquivalentApiFileContents
AreEquivalentApiFileContents(actualFileContent, expectedFileContent) ==
    /\ equivalence' =
         [actual |-> actualFileContent, expected |-> expectedFileContent,
          result |-> NormalizeFileContent(actualFileContent)
                       = NormalizeFileContent(expectedFileContent)]
    /\ UNCHANGED <<runVars, modifiedText, synopsis, review, spanVars, modifySpanVars, astVars, apiVars>>

(***************************************************************************)
(* ReviewFileGenerator._getAedocSynopsis.  A string is a sequence of       *)
(* pieces of text; a StringBuilder is the sequence of the strings appended *)
(* to it, and its toString() their concatenation.                          *)
(***************************************************************************)
RECURSIVE Concatenation(_)
Concatenation(chunks) ==
    IF chunks = <<>> THEN <<>> ELSE Head(chunks) \o Concatenation(Tail(chunks))

\* Array.prototype.join
RECURSIVE Join(_, _)
Join(parts, separator) ==
    IF parts = <<>> THEN <<>>
    ELSE IF Len(parts) = 1 THEN <<parts[1]>>
    ELSE <<parts[1], separator>> \o Join(Tail(parts), separator)

ReleaseTags == {"None", "Internal", "Alpha", "Beta", "Public"}

\* SymbolMetadata, as collector.fetchMetadata(astSymbol) returns it.
SymbolMetadatas == [releaseTag : ReleaseTags, releaseTagSameAsParent : BOOLEAN]

\* DeclarationMetadata, as collector.fetchMetadata(astDeclaration) returns it.
\* tsdocComment is "undefined", or a comment with or without a deprecatedBlock.
DeclarationMetadatas ==
    [isSealed : BOOLEAN, isVirtual : BOOLEAN, isOverride : BOOLEAN,
     isEventProperty : BOOLEAN, needsDocumentation : BOOLEAN,
     tsdocComment : {"undefined", "comment", "deprecated"}]

\* Faulty variant of ReleaseTagPart: releaseTagSameAsParent is not looked at.
ReleaseTagPartAlways(symbolMetadata) ==
    CASE symbolMetadata.releaseTag = "Internal" -> <<"@internal">>
      [] symbolMetadata.releaseTag = "Alpha" -> <<"@alpha">>
      [] symbolMetadata.releaseTag = "Beta" -> <<"@beta">>
      [] symbolMetadata.releaseTag = "Public" -> <<"@public">>
      [] OTHER -> <<>>

\* The switch on symbolMetadata.releaseTag: what it pushes on footerParts.
ReleaseTagPart(symbolMetadata) ==
    IF symbolMetadata.releaseTagSameAsParent THEN <<>>
    ELSE CASE symbolMetadata.releaseTag = "Internal" -> <<"@internal">>
           [] symbolMetadata.releaseTag = "Alpha" -> <<"@alpha">>
           [] symbolMetadata.releaseTag = "Beta" -> <<"@beta">>
           [] symbolMetadata.releaseTag = "Public" -> <<"@public">>
           [] OTHER -> <<>>

\* Faulty variant of ModifierParts: @virtual is pushed before @sealed.
ModifierPartsVirtualFirst(declarationMetadata) ==
    (IF declarationMetadata.isVirtual THEN <<"@virtual">> ELSE <<>>)
    \o (IF declarationMetadata.isSealed THEN <<"@sealed">> ELSE <<>>)
    \o (IF declarationMetadata.isOverride THEN <<"@override">> ELSE <<>>)
    \o (IF declarationMetadata.isEventProperty THEN <<"@eventproperty">> ELSE <<>>)
    \o (IF declarationMetadata.tsdocComment = "deprecated" THEN <<"@deprecated">> ELSE <<>>)
    \o (IF declarationMetadata.needsDocumentation THEN <<"(undocumented)">> ELSE <<>>)

\* The pushes on footerParts that follow the release tag, in the order of the code.
ModifierParts(declarationMetadata) ==
    (IF declarationMetadata.isSealed THEN <<"@sealed">> ELSE <<>>)
    \o (IF declarationMetadata.isVirtual THEN <<"@virtual">> ELSE <<>>)
    \o (IF declarationMetadata.isOverride THEN <<"@override">> ELSE <<>>)
    \o (IF declarationMetadata.isEventProperty THEN <<"@eventproperty">> ELSE <<>>)
    \o (IF declarationMetadata.tsdocComment = "deprecated" THEN <<"@deprecated">> ELSE <<>>)
    \o (IF declarationMetadata.needsDocumentation THEN <<"(undocumented)">> ELSE <<>>)

\* ReviewFileGenerator._writeLineAsComment: the strings it appends to output.
WriteLineAsComment(output, line) == output \o << <<"// ">>, line, <<"\n">> >>

\* ReviewFileGenerator._getAedocSynopsis, given the two metadata objects that
\* collector.fetchMetadata returns for the declaration and for its symbol.
GetAedocSynopsis(declarationMetadata, symbolMetadata) ==
    LET footerParts == ReleaseTagPart(symbolMetadata) \o ModifierParts(declarationMetadata)
        output == IF Len(footerParts) > 0
                  THEN WriteLineAsComment(<<>>, Join(footerParts, " "))
                  ELSE <<>>
    IN  Concatenation(output)

\* A call of _getAedocSynopsis for a declaration with these metadata.
CallGetAedocSynopsis(declarationMetadata, symbolMetadata) ==
    /\ synopsis' = [declarationMetadata |-> declarationMetadata,
                    symbolMetadata |-> symbolMetadata,
                    result |-> GetAedocSynopsis(declarationMetadata, symbolMetadata)]
    /\ UNCHANGED <<runVars, modifiedText, equivalence, review, spanVars, modifySpanVars, astVars, apiVars>>

(***************************************************************************)
(* ReviewFileGenerator.generateReviewFileContent.  A collector is its      *)
(* entities, in iteration order, and whether its package has a tsdocComment.*)
(* An entity is its exported flag and its AstSymbol: the metadata of the    *)
(* symbol and its astDeclarations, each with its metadata.  The text that   *)
(* span.writeModifiedText(output) writes for the declaration k of entity e  *)
(* is kept as one piece of text that names e and k.                         *)
(***************************************************************************)
\* The metadata the entities of the model have.
SomeSymbolMetadatas ==
    {[releaseTag |-> "Public", releaseTagSameAsParent |-> FALSE],
     [releaseTag |-> "Alpha", releaseTagSameAsParent |-> TRUE],
     [releaseTag |-> "None", releaseTagSameAsParent |-> FALSE]}

SomeDeclarationMetadatas ==
    {[isSealed |-> FALSE, isVirtual |-> FALSE, isOverride |-> FALSE,
      isEventProperty |-> FALSE, needsDocumentation |-> FALSE, tsdocComment |-> "comment"],
     [isSealed |-> FALSE, isVirtual |-> FALSE, isOverride |-> FALSE,
      isEventProperty |-> FALSE, needsDocumentation |-> TRUE, tsdocComment |-> "undefined"]}

\* The declarations of a symbol: the first one, and the merged declarations
\* after it, which are alike.
DeclarationLists ==
    {[k \in 1..n |-> IF k = 1 THEN first ELSE merged] :
        n \in 0..MaxDeclarations,
        first \in SomeDeclarationMetadatas, merged \in SomeDeclarationMetadatas}

AstSymbolsOfCollector == [metadata : SomeSymbolMetadatas, astDeclarations : DeclarationLists]

\* The entities that are not exported are not looked into: they differ by the
\* number of their declarations only.
CollectorEntities ==
    [exported : {TRUE}, astSymbol : AstSymbolsOfCollector]
    \cup {[exported |-> FALSE,
           astSymbol |-> [metadata |-> [releaseTag |-> "Public",
                                        releaseTagSameAsParent |-> FALSE],
                          astDeclarations |-> [k \in 1..n |->
                              [isSealed |-> FALSE, isVirtual |-> FALSE, isOverride |-> FALSE,
                               isEventProperty |-> FALSE, needsDocumentation |-> TRUE,
                               tsdocComment |-> "undefined"]]]] : n \in 0..MaxDeclarations}

\* The entities of a collector: the first one, and the entities after it, which
\* are alike.
EntityLists ==
    {[e \in 1..n |-> IF e = 1 THEN first ELSE later] :
        n \in 0..MaxEntities, first \in CollectorEntities, later \in CollectorEntities}

Collectors == [entities : EntityLists, packageTsdocComment : {"undefined", "comment"}]

\* The modified text of the Span of declaration k of entity e.
ModifiedText(e, k) == << ToString(<<e, k>>) >>

\* Faulty variant of EmitDeclaration: after the first declaration of a symbol the
\* synopsis is written as if the release tag were the same as the parent's.
EmitDeclarationTagOnce(output, collector, e, k) ==
    LET astSymbol == collector.entities[e].astSymbol
        metadata == IF k = 1 THEN astSymbol.metadata
                    ELSE [astSymbol.metadata EXCEPT !.releaseTagSameAsParent = TRUE]
    IN  output \o << GetAedocSynopsis(astSymbol.astDeclarations[k], metadata),
                     ModifiedText(e, k),
                     <<"\n", "\n">> >>

\* The body of the inner loop, for declaration k of entity e: three appends.
EmitDeclaration(output, collector, e, k) ==
    LET astSymbol == collector.entities[e].astSymbol
    IN  output \o << GetAedocSynopsis(astSymbol.astDeclarations[k], astSymbol.metadata),
                     ModifiedText(e, k),
                     <<"\n", "\n">> >>

\* The inner loop, from declaration k of entity e on.
RECURSIVE EmitDeclarations(_, _, _, _)
EmitDeclarations(output, collector, e, k) ==
    IF k > Len(collector.entities[e].astSymbol.astDeclarations) THEN output
    ELSE EmitDeclarations(EmitDeclaration(output, collector, e, k), collector, e, k + 1)

\* Faulty variant of EmitEntity: entity.exported is not looked at.
EmitEntityExportedOrNot(output, collector, e) == EmitDeclarations(output, collector, e, 1)

\* The body of the outer loop, for entity e.
EmitEntity(output, collector, e) ==
    IF collector.entities[e].exported THEN EmitDeclarations(output, collector, e, 1)
    ELSE output

\* The outer loop, from entity e on.
RECURSIVE EmitEntities(_, _, _)
EmitEntities(output, collector, e) ==
    IF e > Len(collector.entities) THEN output
    ELSE EmitEntities(EmitEntity(output, collector, e), collector, e + 1)

NoPackageDocumentation == <<"(No @packageDocumentation comment for this package)">>

\* Faulty variant of ReviewFileOutput: the package's tsdocComment is not looked at.
ReviewFileOutputOfEntities(collector) == EmitEntities(<<>>, collector, 1)

\* The StringBuilder of generateReviewFileContent at its return.
ReviewFileOutput(collector) ==
    LET output == EmitEntities(<<>>, collector, 1)
    IN  IF collector.packageTsdocComment = "undefined"
        THEN WriteLineAsComment(Append(output, <<"\n">>), NoPackageDocumentation)
        ELSE output

\* ReviewFileGenerator.generateReviewFileContent
GenerateReviewFileContent(collector) ==
    /\ LET output == ReviewFileOutput(collector)
       IN  review' = [collector |-> collector,
                      output |-> output,
                      result |-> Concatenation(output)]
    /\ UNCHANGED <<runVars, modifiedText, equivalence, synopsis, spanVars, modifySpanVars, astVars, apiVars>>

(***************************************************************************)
(* ReviewFileGenerator._modifySpan.  A declaration is the syntax tree of   *)
(* one declaration of a source file, with the kind of each node, and what  *)
(* the compiler and the collector answer about its nodes: the enclosing    *)
(* VariableDeclarationList, the entity that an identifier resolves to, the *)
(* local name and the synopsis of a nested declaration.  Text that is not  *)
(* copied from the source file is made of character codes above 1000.      *)
(***************************************************************************)
\* 'declare '
DeclareText == << 1001 >>

\* ';'
SemicolonText == << 1002 >>

\* '\n'
NewLineText == << 1003 >>

\* '_'
UnderscoreText == << 1095 >>

\* declare const x: Foo;    the declaration is "x: Foo"; the word declare is at
\* offset 0, the list starts at offset 2 and its first declaration at offset 4
VariableSample ==
    [nodes  |-> << Node(0, 4, 7), Node(1, 4, 5), Node(1, 5, 6), Node(1, 6, 7), Node(4, 6, 7) >>,
     kinds  |-> << "VariableDeclaration", "Identifier", "Token", "TypeReference", "Identifier" >>,
     lists  |-> { <<>>, <<2, 4>> },
     declareWords |-> {0},
     blanks |-> {1, 3}]

\* namespace N { const a; class _b {} }    one member on each line, indented;
\* the list of the variable starts at offset 4, its declaration at offset 6
NamespaceSample ==
    [nodes  |-> << Node(0, 0, 12), Node(1, 0, 1), Node(1, 1, 12), Node(3, 1, 2),
                   Node(3, 4, 10), Node(5, 4, 7), Node(6, 4, 7), Node(7, 4, 5), Node(7, 6, 7),
                   Node(9, 6, 7), Node(10, 6, 7), Node(5, 9, 10), Node(12, 9, 10),
                   Node(3, 11, 12) >>,
     kinds  |-> << "ModuleDeclaration", "Identifier", "ModuleBlock", "Token",
                   "SyntaxList", "VariableStatement", "VariableDeclarationList", "Token",
                   "SyntaxList", "VariableDeclaration", "Identifier", "ClassDeclaration",
                   "Identifier", "Token" >>,
     lists  |-> { <<4, 6>> },
     declareWords |-> {},
     blanks |-> {3, 5, 8}]

\* /** Foo */ export class C { b; _a; }    one member on each line, indented
ClassSample ==
    [nodes  |-> << Node(0, 0, 14), Node(1, 0, 1), Node(2, 0, 1), Node(1, 2, 3), Node(4, 2, 3),
                   Node(1, 4, 5), Node(1, 5, 6), Node(1, 8, 12), Node(8, 8, 9), Node(9, 8, 9),
                   Node(8, 11, 12), Node(11, 11, 12), Node(1, 13, 14) >>,
     kinds  |-> << "ClassDeclaration", "JSDocComment", "Identifier", "SyntaxList", "ExportKeyword",
                   "Identifier", "Token", "SyntaxList", "PropertyDeclaration", "Identifier",
                   "PropertyDeclaration", "Identifier", "Token" >>,
     lists  |-> { <<>> },
     declareWords |-> {},
     blanks |-> {1, 3, 7, 10}]

SampleDeclarations == {VariableSample, NamespaceSample, ClassSample}

\* SymbolAnalyzer.isAstDeclaration
IsAstDeclaration(kind) ==
    kind \in {"ClassDeclaration", "ModuleDeclaration", "PropertyDeclaration", "VariableDeclaration"}

\* What collector.tryGetEntityBySymbol answers for the symbol of an identifier:
\* <<>> for no entity, or the entity, whose nameForEmit is <<>> when undefined.
Resolutions ==
    { <<>>, << [nameForEmit |-> <<>>] >>,
      << [nameForEmit |-> << <<1010>> >>] >>, << [nameForEmit |-> << <<1011>> >>] >> }

\* astSymbol.localName of a nested declaration: a, _a, b
LocalNames == { <<1097>>, <<1095, 1097>>, <<1098>> }

\* What _getAedocSynopsis returns for a nested declaration: '' or a comment line.
Synopses == { <<>>, <<1047>> \o NewLineText }

IdentifiersOf(sample) == {n \in 1..Len(sample.nodes) : sample.kinds[n] = "Identifier"}

NestedDeclarationsOf(sample) ==
    {n \in 1..Len(sample.nodes) : sample.nodes[n].parent # 0 /\ IsAstDeclaration(sample.kinds[n])}

\* The compiler and the collector hand over a declaration of an exported entity.
ParseDeclaration(sample, list, resolution, localName, aedocSynopsis) ==
    /\ nodes = <<>>
    /\ nodes' = sample.nodes
    /\ declaration' = [kinds |-> sample.kinds, list |-> list,
                       declareWords |-> sample.declareWords, blanks |-> sample.blanks,
                       resolution |-> resolution, localName |-> localName,
                       aedocSynopsis |-> aedocSynopsis]
    /\ UNCHANGED <<runVars, modifiedText, spans, modification, modificationCount, modifySpanCall,
                   astVars, apiVars, reviewVars>>

\* Span.kind
Kind(n) == declaration.kinds[n]

\* Span.parent, 0 when undefined
Parent(n) == nodes[n].parent

\* Span.getIndent: the blanks before the span, back to the start of its line.
RECURSIVE LineStartIndex(_)
LineStartIndex(index) ==
    IF index > 0 /\ (index - 1) \in declaration.blanks THEN LineStartIndex(index - 1) ELSE index

GetIndent(n) == GetSubstring(LineStartIndex(spans[n].startIndex), spans[n].startIndex)

\* Text.replaceAll(text, '\n', '\n' + indent)
RECURSIVE ReplaceAllNewLines(_, _)
ReplaceAllNewLines(text, indent) ==
    IF text = <<>> THEN <<>>
    ELSE IF <<text[1]>> = NewLineText
    THEN NewLineText \o indent \o ReplaceAllNewLines(Tail(text), indent)
    ELSE <<text[1]>> \o ReplaceAllNewLines(Tail(text), indent)

\* ReviewFileGenerator._addIndentAfterNewlines
AddIndentAfterNewlines(text, indent) ==
    IF Len(text) = 0 \/ Len(indent) = 0 THEN text ELSE ReplaceAllNewLines(text, indent)

\* Collector.getSortKeyIgnoringUnderscore: a leading underscore is stripped, and
\* the name with the underscore sorts after the same name without it.
GetSortKeyIgnoringUnderscore(identifier) ==
    IF <<identifier[1]>> = UnderscoreText
    THEN Tail(identifier) \o <<1>>
    ELSE identifier \o <<0>>

\* modification.prefix of a span, read from the modifications made so far in
\* the call.
PrefixIn(m, n) == IF m[n]._prefix # <<>> THEN m[n]._prefix[1] ELSE Prefix(n)

\* The local variable sortChildren of the call on the span: a SyntaxList whose
\* parent is an API declaration or a ModuleBlock.
SortChildrenLocal(n) ==
    /\ Kind(n) = "SyntaxList"
    /\ Parent(n) # 0
    /\ \/ IsAstDeclaration(Kind(Parent(n)))
       \/ Kind(Parent(n)) = "ModuleBlock"

\* span.modification.skipAll() within the call
SkipAllIn(m, n) ==
    [m EXCEPT ![n] = [@ EXCEPT !._prefix = << <<>> >>, !._suffix = << <<>> >>,
                               !.omitChildren = TRUE, !.omitSeparatorAfter = TRUE]]

\* Faulty variant of ModifySpanVariableDeclaration: the declaration is changed
\* whether or not the span has a parent.
ModifySpanVariableDeclarationAtAnyDepth(r, n) ==
    IF declaration.list = <<>>
    THEN [r EXCEPT !.threw = TRUE]
    ELSE LET listPrefix == GetSubstring(declaration.list[1], declaration.list[2])
         IN  [r EXCEPT !.modification[n] = [@ EXCEPT
                !._prefix = << DeclareText \o listPrefix \o PrefixIn(r.modification, n) >>,
                !._suffix = << SemicolonText >>]]

\* case ts.SyntaxKind.VariableDeclaration; r is the modifications made so far
\* and whether the call has thrown.
ModifySpanVariableDeclaration(r, n) ==
    IF Parent(n) # 0 THEN r
    ELSE IF declaration.list = <<>>
    THEN [r EXCEPT !.threw = TRUE]
    ELSE LET listPrefix == GetSubstring(declaration.list[1], declaration.list[2])
         IN  [r EXCEPT !.modification[n] = [@ EXCEPT
                !._prefix = << DeclareText \o listPrefix \o PrefixIn(r.modification, n) >>,
                !._suffix = << SemicolonText >>]]

\* Faulty variant of ModifySpanIdentifier: the name is put before the text of
\* the identifier.
ModifySpanIdentifierPrefixed(r, n) ==
    IF declaration.resolution[n] = <<>> THEN r
    ELSE LET referencedEntity == declaration.resolution[n][1]
         IN  IF referencedEntity.nameForEmit = <<>>
             THEN [r EXCEPT !.threw = TRUE]
             ELSE [r EXCEPT !.modification[n]._prefix =
                     << referencedEntity.nameForEmit[1] \o PrefixIn(r.modification, n) >>]

\* case ts.SyntaxKind.Identifier
ModifySpanIdentifier(r, n) ==
    IF declaration.resolution[n] = <<>> THEN r
    ELSE LET referencedEntity == declaration.resolution[n][1]
         IN  IF referencedEntity.nameForEmit = <<>>
             THEN [r EXCEPT !.threw = TRUE]
             ELSE [r EXCEPT !.modification[n]._prefix = << referencedEntity.nameForEmit[1] >>]

\* The switch on span.kind.
ModifySpanSwitch(r, n) ==
    CASE Kind(n) = "JSDocComment" -> [r EXCEPT !.modification = SkipAllIn(@, n)]
      [] Kind(n) \in {"ExportKeyword", "DefaultKeyword"} ->
            [r EXCEPT !.modification = SkipAllIn(@, n)]
      [] Kind(n) = "VariableDeclaration" -> ModifySpanVariableDeclaration(r, n)
      [] Kind(n) = "Identifier" -> ModifySpanIdentifier(r, n)
      [] OTHER -> r

\* Faulty variant of ModifySpanChild: the list is marked as sorted whether or
\* not the child is an API declaration.
ModifySpanChildMarkingEveryList(m, n, child) ==
    LET marked == IF SortChildrenLocal(n) THEN [m EXCEPT ![n].sortChildren = TRUE] ELSE m
    IN  IF IsAstDeclaration(Kind(child))
        THEN LET keyed == IF SortChildrenLocal(n)
                          THEN [marked EXCEPT ![child].sortKey =
                                  << GetSortKeyIgnoringUnderscore(declaration.localName[child]) >>]
                          ELSE marked
                 indentedAedocSynopsis ==
                     AddIndentAfterNewlines(declaration.aedocSynopsis[child], GetIndent(child))
             IN  [keyed EXCEPT ![child]._prefix =
                                  << indentedAedocSynopsis \o PrefixIn(keyed, child) >>]
        ELSE marked

\* The body of the loop over span.children, before the recursive call: the sort
\* key and the synopsis of a child that is an API declaration.
ModifySpanChild(m, n, child) ==
    IF IsAstDeclaration(Kind(child))
    THEN LET keyed == IF SortChildrenLocal(n)
                      THEN [m EXCEPT ![n].sortChildren = TRUE,
                                     ![child].sortKey =
                                        << GetSortKeyIgnoringUnderscore(declaration.localName[child]) >>]
                      ELSE m
             indentedAedocSynopsis ==
                 AddIndentAfterNewlines(declaration.aedocSynopsis[child], GetIndent(child))
         IN  [keyed EXCEPT ![child]._prefix = << indentedAedocSynopsis \o PrefixIn(keyed, child) >>]
    ELSE m

\* ReviewFileGenerator._modifySpan on the span, and its loop over the children
\* from child number i on.
RECURSIVE ModifySpanOf(_, _)
RECURSIVE ModifySpanChildren(_, _, _)
ModifySpanChildren(r, n, i) ==
    IF i > Len(Children(n)) \/ r.threw THEN r
    ELSE LET child == Children(n)[i]
             before == [r EXCEPT !.modification = ModifySpanChild(r.modification, n, child)]
         IN  ModifySpanChildren(ModifySpanOf(before, child), n, i + 1)

ModifySpanOf(r, n) ==
    LET switched == ModifySpanSwitch(r, n)
        recurseChildren == Kind(n) # "JSDocComment"
    IN  IF switched.threw \/ ~recurseChildren THEN switched
        ELSE ModifySpanChildren(switched, n, 1)

\* generateReviewFileContent: _modifySpan(collector, span, entity, astDeclaration)
\* on the span of the declaration.
ModifySpan ==
    /\ spans # <<>>
    /\ declaration # NoCall
    /\ modifySpanCall = NoCall
    /\ LET r == ModifySpanOf([modification |-> modification, threw |-> FALSE], 1)
       IN  /\ modification' = r.modification
           /\ modifySpanCall' = Call("_modifySpan", 1, 0, r.threw)
    /\ UNCHANGED <<runVars, modifiedText, nodes, spans, modificationCount, declaration, astVars, apiVars, reviewVars>>

(***************************************************************************)
(* RunAction.onExecute.  What the action finds on the command line and in  *)
(* the file system, and what the Extractor does, are its inputs.           *)
(***************************************************************************)
\* typescriptCompilerFolder: whether --typescript-compiler-folder is given,
\* whether the folder exists, and the name in the package.json found for it
\* ("undefined" when there is no package folder or no package.json).
\* configFile: whether --config is given and whether that file exists;
\* inConfigFolder, atTopLevel: whether ./config and . have the config file.
\* configValid: whether JsonFile.loadAndValidate and new Extractor return.
\* processProject: what extractor.processProject() does.
Environments ==
    [typescriptCompilerFolder : BOOLEAN, folderExists : BOOLEAN,
     packageJsonName : {"undefined", "typescript", "other"},
     configFile : BOOLEAN, configFileExists : BOOLEAN,
     inConfigFolder : BOOLEAN, atTopLevel : BOOLEAN,
     configValid : BOOLEAN,
     processProject : {"true", "false", "throws"}]

\* The error that onExecute throws before it calls processProject, or "ok".
OnExecuteError(env) ==
    IF env.typescriptCompilerFolder /\ ~env.folderExists THEN "does not exist"
    ELSE IF env.typescriptCompilerFolder /\ env.packageJsonName = "undefined" THEN "not a package"
    ELSE IF env.typescriptCompilerFolder /\ env.packageJsonName # "typescript"
    THEN "not a TypeScript compiler package"
    ELSE IF env.configFile /\ ~env.configFileExists THEN "Config file not found"
    ELSE IF ~env.configFile /\ env.inConfigFolder /\ env.atTopLevel THEN "conflicting files"
    ELSE IF ~env.configFile /\ ~env.inConfigFolder /\ ~env.atTopLevel THEN "Unable to find"
    ELSE IF ~env.configValid THEN "invalid configuration"
    ELSE "ok"

\* Faulty variant of OnExecute: the exit code is set when processProject
\* returns true.
OnExecuteFailingOnSuccess(env) ==
    LET error == OnExecuteError(env)
        threw == error # "ok" \/ env.processProject = "throws"
    IN  /\ exitCode' = IF error = "ok" /\ env.processProject = "true" THEN 1 ELSE exitCode
        /\ execution' = Call("onExecute", 0, env, threw)
        /\ UNCHANGED <<modifiedText, spanVars, modifySpanVars, astVars, apiVars, reviewVars>>

\* RunAction.onExecute
OnExecute(env) ==
    LET error == OnExecuteError(env)
        threw == error # "ok" \/ env.processProject = "throws"
    IN  /\ exitCode' = IF error = "ok" /\ env.processProject = "false" THEN 1 ELSE exitCode
        /\ execution' = Call("onExecute", 0, env, threw)
        /\ UNCHANGED <<modifiedText, spanVars, modifySpanVars, astVars, apiVars, reviewVars>>

(***************************************************************************)
(* Specifications.                                                         *)
(***************************************************************************)
Init ==
    /\ nodes = <<>>
    /\ spans = <<>>
    /\ modification = <<>>
    /\ modificationCount = 0
    /\ modifiedText = NoCall
    /\ declaration = NoCall
    /\ modifySpanCall = NoCall
    /\ astDeclarations = <<>>
    /\ analyzed = [sym \in AstSymbols |-> FALSE]
    /\ astCall = NoCall
    /\ apiItems = [m \in ApiItemIds |-> NoApiItem]
    /\ apiCall = NoCall
    /\ equivalence = NoCall
    /\ synopsis = NoCall
    /\ review = NoCall
    /\ exitCode = 0
    /\ execution = NoCall

NextSpan ==
    \/ \E p \in 0..MaxNodes, s \in 0..MaxLen, e \in 0..MaxLen : AddNode(p, s, e)
    \/ NewSpan

SpecSpan == Init /\ [][NextSpan]_vars

NextModification ==
    \/ \E tree \in SampleTrees : ParseSample(tree)
    \/ NewSpan
    \/ \E n \in 1..Len(spans) : SkipAll(n)
    \/ \E n \in 1..Len(spans) : Reset(n)
    \/ \E n \in 1..Len(spans) : SetSortChildren(n)
    \/ \E n \in 1..Len(spans), key \in SortKeys : SetSortKey(n, key)
    \/ GetModifiedTextCall(RootSpan)

SpecModification == Init /\ [][NextModification]_vars

NextModifySpan ==
    \/ /\ nodes = <<>>
       /\ \E sample \in SampleDeclarations :
            \E list \in sample.lists,
               resolution \in [IdentifiersOf(sample) -> Resolutions],
               localName \in [NestedDeclarationsOf(sample) -> LocalNames],
               aedocSynopsis \in [NestedDeclarationsOf(sample) -> Synopses] :
                ParseDeclaration(sample, list, resolution, localName, aedocSynopsis)
    \/ NewSpan
    \/ ModifySpan

SpecModifySpan == Init /\ [][NextModifySpan]_vars

NextAst ==
    \/ \E sym \in DeclaredAstSymbols, parent \in 0..MaxAstDeclarations :
          NewAstDeclaration(sym, parent)
    \/ \E d, child \in 1..MaxAstDeclarations : NotifyChildAttach(d, child)
    \/ \E d \in 1..MaxAstDeclarations, sym \in NotifiedAstSymbols :
          NotifyReferencedAstSymbol(d, sym)
    \/ \E sym \in DeclaredAstSymbols : NotifyAnalyzed(sym)

SpecAst == Init /\ [][NextAst]_vars

OptionsMembers == UNION {[1..n -> ApiItemIds] : n \in 0..MaxOptionsMembers}

NextApi ==
    \/ \E c \in ApiItemIds, ms \in OptionsMembers : NewApiItem(c, ms)
    \/ \E c, m \in ApiItemIds : AddMember(c, m)

SpecApi == Init /\ [][NextApi]_vars

\* The items that are given members, and the one of them that is read.
FilledContainers == {1, 4}

ReadContainer == 1

\* Items constructed without members, two of them then filled, one of them read.
NextApiRead ==
    \/ \E c \in ApiItemIds : NewApiItem(c, <<>>)
    \/ \E c \in FilledContainers, m \in ApiItemIds : AddMember(c, m)
    \/ Members(ReadContainer)
    \/ \E name \in ApiItemNames : FindMembersByName(ReadContainer, name)

SpecApiRead == Init /\ [][NextApiRead]_vars

FileContents == UNION {[1..n -> Characters] : n \in 0..MaxContentLen}

NextEquivalence ==
    /\ equivalence = NoCall
    /\ \E actual, expected \in FileContents : AreEquivalentApiFileContents(actual, expected)

SpecEquivalence == Init /\ [][NextEquivalence]_vars

NextSynopsis ==
    /\ synopsis = NoCall
    /\ \E dm \in DeclarationMetadatas, sm \in SymbolMetadatas : CallGetAedocSynopsis(dm, sm)

SpecSynopsis == Init /\ [][NextSynopsis]_vars

NextReview ==
    /\ review = NoCall
    /\ \E collector \in Collectors : GenerateReviewFileContent(collector)

SpecReview == Init /\ [][NextReview]_vars

\* One run of the command.
NextRun ==
    /\ execution = NoCall
    /\ \E env \in Environments : OnExecute(env)

SpecRun == Init /\ [][NextRun]_vars

Next == NextRun \/ NextSpan \/ NextModification \/ NextModifySpan \/ NextAst \/ NextApi \/ NextApiRead \/ NextEquivalence \/ NextSynopsis \/ NextReview

Spec == Init /\ [][Next]_vars

(***************************************************************************)
(* Claims about Span.                                                      *)
(***************************************************************************)
SpanBuilt == spans # <<>> /\ ~spans[1].threw

HasSeparator(n) == spans[n].separatorStartIndex # spans[n].separatorEndIndex

\* The end of the span's own separator; its endIndex when it has none.
OwnSeparatorEnd(n) ==
    IF HasSeparator(n) THEN spans[n].separatorEndIndex ELSE spans[n].endIndex

\* The end of the span's last inner separator (the one getLastInnerSeparator()
\* returns); its endIndex when there is none.
RECURSIVE LastInnerSeparatorEnd(_)
LastInnerSeparatorEnd(n) ==
    IF HasSeparator(n) THEN spans[n].separatorEndIndex
    ELSE IF Children(n) # <<>> /\ GetLastInnerSeparator(n) # <<>>
    THEN LastInnerSeparatorEnd(Last(Children(n)))
    ELSE spans[n].endIndex

\* The gap after span n was pushed down to a span below it.
PushedDown(n) == ~HasSeparator(n) /\ GetLastInnerSeparator(n) # <<>>

\* C1: the root's getText() is exactly the source text of [startIndex, endIndex):
\* no character is lost, duplicated or reordered.
SpanRoundTrip ==
    SpanBuilt => GetText(1) = GetSubstring(spans[1].startIndex, spans[1].endIndex)

\* C1 witness: a built tree with a prefix, a suffix, and a separator that was
\* pushed down below the span it follows.
SpanRoundTripWitness ==
    /\ SpanBuilt
    /\ Prefix(1) # <<>>
    /\ \E n \in 1..Len(nodes) : Children(n) # <<>> /\ Suffix(n) # <<>>
    /\ \E n \in 1..Len(nodes) : PushedDown(n)

\* C2 as stated: for every span, prefix, children, suffix and separator are
\* contiguous and cover [startIndex, end of the span's separator), each child
\* taken up to the end of its own separator.
SpanPartsContiguousOwnSeparator ==
    SpanBuilt =>
      \A n \in 1..Len(nodes) :
        LET kids == Children(n)
        IN  /\ HasSeparator(n) => spans[n].separatorStartIndex = spans[n].endIndex
            /\ kids # <<>> =>
                 /\ spans[n].startIndex <= spans[kids[1]].startIndex
                 /\ \A i \in 1..(Len(kids) - 1) :
                      OwnSeparatorEnd(kids[i]) = spans[kids[i + 1]].startIndex
                 /\ OwnSeparatorEnd(Last(kids)) = spans[Last(kids)].endIndex
                 /\ spans[Last(kids)].endIndex <= spans[n].endIndex

\* C2 amended: for every span, prefix, children, suffix and separator are
\* contiguous, do not overlap and cover [startIndex, end of the span's last inner
\* separator), each child taken up to the end of its last inner separator; a
\* span whose trailing gap was pushed down has an empty suffix and an empty
\* separator of its own, and the gap is the end of its last child's text.
SpanPartsContiguous ==
    SpanBuilt =>
      \A n \in 1..Len(nodes) :
        LET kids == Children(n)
        IN  /\ HasSeparator(n) =>
                 /\ spans[n].separatorStartIndex = spans[n].endIndex
                 /\ spans[n].separatorEndIndex > spans[n].endIndex
            /\ kids # <<>> =>
                 /\ spans[n].startIndex <= spans[kids[1]].startIndex
                 /\ \A i \in 1..(Len(kids) - 1) :
                      LastInnerSeparatorEnd(kids[i]) = spans[kids[i + 1]].startIndex
                 /\ spans[Last(kids)].endIndex <= spans[n].endIndex
                 /\ \/ LastInnerSeparatorEnd(Last(kids)) = spans[Last(kids)].endIndex
                    \/ /\ Suffix(n) = <<>>
                       /\ ~HasSeparator(n)
                       /\ LastInnerSeparatorEnd(Last(kids)) = LastInnerSeparatorEnd(n)
            /\ GetText(n) = GetSubstring(spans[n].startIndex, LastInnerSeparatorEnd(n))

\* C2 witness: a span with a prefix whose trailing gap went to its last child,
\* so that its text ends after its endIndex.
SpanPartsContiguousWitness ==
    /\ SpanBuilt
    /\ \E n \in 1..Len(nodes) :
          /\ PushedDown(n)
          /\ Prefix(n) # <<>>
          /\ HasSeparator(Last(Children(n)))
          /\ LastInnerSeparatorEnd(n) > spans[n].endIndex

(***************************************************************************)
(* Claims about AstDeclaration.                                            *)
(***************************************************************************)
Referenced(ds, d) == Range(ds[d].analyzedReferencedAstSymbolsSet)

\* No symbol recorded on a declaration is also recorded on one of its ancestors.
NoRedundantReferences(ds) ==
    \A d \in 1..Len(ds) : \A a \in AstAncestors(ds, d) :
        Referenced(ds, d) \cap Referenced(ds, a) = {}

\* C3 as stated: whatever the order of the _notifyReferencedAstSymbol calls, no
\* symbol in D's referenced set is in the referenced set of an ancestor of D.
ReferencesNeverRedundant == NoRedundantReferences(astDeclarations)

\* This step records, on some declaration, a symbol that one of its descendants
\* already records.
RecordsAboveDescendant ==
    \E a \in 1..Len(astDeclarations) :
      \E sym \in Referenced(astDeclarations', a) \ Referenced(astDeclarations, a) :
        \E d \in 1..Len(astDeclarations) :
            a \in AstAncestors(astDeclarations, d) /\ sym \in Referenced(astDeclarations, d)

\* C3 amended: as long as no symbol is recorded on a declaration after one of its
\* descendants recorded it (references are collected from the root down), no
\* symbol in D's referenced set is in the referenced set of an ancestor of D.
ReferencesNotRedundantTopDown ==
    [][(NoRedundantReferences(astDeclarations) /\ ~RecordsAboveDescendant)
          => NoRedundantReferences(astDeclarations')]_vars

\* C3 witness: _notifyReferencedAstSymbol was called on a nested declaration
\* whose parent records a reference, and nothing is recorded twice.
ReferencesNotRedundantWitness ==
    /\ astCall.op = "_notifyReferencedAstSymbol" /\ ~astCall.threw
    /\ astDeclarations[astCall.target].parent # 0
    /\ astDeclarations[astDeclarations[astCall.target].parent].analyzedReferencedAstSymbolsSet # <<>>
    /\ NoRedundantReferences(astDeclarations)

\* C4: the referenced set of D never holds D's own AstSymbol nor the AstSymbol of
\* an ancestor of D, and holds each symbol once.
NoSelfOrAncestorReference ==
    \A d \in 1..Len(astDeclarations) :
        /\ NoDuplicates(astDeclarations[d].analyzedReferencedAstSymbolsSet)
        /\ astDeclarations[d].astSymbol \notin Referenced(astDeclarations, d)
        /\ \A a \in AstAncestors(astDeclarations, d) :
              astDeclarations[a].astSymbol \notin Referenced(astDeclarations, d)

\* C4 witness: a nested declaration whose symbol differs from its parent's, with
\* a recorded reference, after a call on it.
NoSelfOrAncestorReferenceWitness ==
    \E d \in 1..Len(astDeclarations) :
        /\ astDeclarations[d].parent # 0
        /\ astDeclarations[astDeclarations[d].parent].astSymbol # astDeclarations[d].astSymbol
        /\ astDeclarations[d].analyzedReferencedAstSymbolsSet # <<>>
        /\ astCall = Call("_notifyReferencedAstSymbol", d, 0, FALSE)

\* The call of this step threw and changed no AstDeclaration.
ThrewAndChangedNothing == astCall'.threw /\ astDeclarations' = astDeclarations

\* C5: once the AstSymbol of a declaration is analyzed, the declaration no longer
\* changes, and _notifyChildAttach and _notifyReferencedAstSymbol on it throw;
\* _notifyChildAttach also throws, adding nothing, when child.parent is not the
\* receiver.
FrozenOnceAnalyzed ==
    [][/\ \A d \in 1..Len(astDeclarations) :
            analyzed[astDeclarations[d].astSymbol] => astDeclarations'[d] = astDeclarations[d]
       /\ (analyzed' = analyzed /\ astCall'.target # 0) =>
            /\ (/\ astCall'.op \in {"new", "_notifyChildAttach", "_notifyReferencedAstSymbol"}
                /\ analyzed[astDeclarations[astCall'.target].astSymbol])
                  => ThrewAndChangedNothing
            /\ (/\ astCall'.op = "_notifyChildAttach"
                /\ astDeclarations[astCall'.arg].parent # astCall'.target)
                  => ThrewAndChangedNothing]_astVars

\* C5 witness: a call on an analyzed declaration threw, with a child and a
\* reference attached before the analysis.
FrozenOnceAnalyzedWitness ==
    /\ astCall.op = "_notifyChildAttach" /\ astCall.threw
    /\ analyzed[astDeclarations[astCall.target].astSymbol]
    /\ astDeclarations[astCall.arg].parent = astCall.target
    /\ astDeclarations[astCall.target].analyzedChildren # <<>>
    /\ astDeclarations[astCall.target].analyzedReferencedAstSymbolsSet # <<>>

(***************************************************************************)
(* Claims about ApiItemContainerMixin.                                     *)
(***************************************************************************)
\* How many times item m occurs in the member list of container c.
Occurrences(c, m) ==
    Cardinality({k \in 1..Len(apiItems[c].members) : apiItems[c].members[k] = m})

\* An item without a parent is in no member list; an item with a parent is once
\* in the member list of its parent and in no other.
InOneContainer ==
    \A m \in ApiItemIds : \A c \in ApiItemIds :
        Occurrences(c, m) = IF apiItems[m].parent = c THEN 1 ELSE 0

\* C6: every ApiItem has at most one parent container and occurs in at most one
\* member list, exactly once; addMember of an item that already has a parent
\* throws and changes nothing.
OneContainerPerItem ==
    /\ []InOneContainer
    /\ [][(apiCall'.op = "addMember" /\ apiItems[apiCall'.arg].parent # 0)
             => (apiCall'.threw /\ apiItems' = apiItems)]_apiVars

\* C6 witness: addMember threw for an item that is a member of another container
\* and whose canonicalReference is not taken in the receiver.
OneContainerPerItemWitness ==
    /\ apiCall.op = "addMember" /\ apiCall.threw
    /\ apiItems[apiCall.arg].parent \notin {0, apiCall.target}
    /\ apiItems[apiCall.target].membersByCanonicalReference[CanonicalReference(apiCall.arg)] = 0
    /\ \E c \in ApiItemIds : Len(apiItems[c].members) >= 2

(***************************************************************************)
(* Claims about areEquivalentApiFileContents.                              *)
(***************************************************************************)
\* s with every maximal run of characters of class replaced by one space: a
\* character of class stays, as a space, when no character of class is before it.
Collapsed(s, class) ==
    LET kept == SelectSeq(Indices(s),
                          LAMBDA i : s[i] \notin class \/ i = 1 \/ s[i - 1] \notin class)
    IN  [j \in 1..Len(kept) |-> IF s[kept[j]] \in class THEN " " ELSE s[kept[j]]]

\* C7 as stated: the result is true if and only if the two strings are identical
\* after every maximal run of space, tab, CR and LF is replaced by one space.
EquivalentIffEqualCollapsingListed ==
    equivalence # NoCall =>
        (equivalence.result <=>
            Collapsed(equivalence.actual, {" ", "\t", "\r", "\n"})
              = Collapsed(equivalence.expected, {" ", "\t", "\r", "\n"}))

\* C7: the result is true if and only if the two strings are identical after
\* every maximal run of characters of the class \s, which has the form feed
\* besides space, tab, CR and LF, is replaced by one space.
EquivalentIffEqualCollapsed ==
    equivalence # NoCall =>
        (equivalence.result <=>
            Collapsed(equivalence.actual, RegExpWhitespace)
              = Collapsed(equivalence.expected, RegExpWhitespace))

\* C7 witness: two different strings compared equivalent, one with a run of two
\* whitespace characters, one with a form feed.
EquivalentIffEqualCollapsedWitness ==
    /\ equivalence # NoCall
    /\ equivalence.result
    /\ equivalence.actual # equivalence.expected
    /\ \E i \in 1..(Len(equivalence.actual) - 1) :
           {equivalence.actual[i], equivalence.actual[i + 1]} \subseteq RegExpWhitespace
    /\ "\f" \in Range(equivalence.expected)
    /\ Range(equivalence.actual) \ RegExpWhitespace # {}

\* s without its whitespace.
WithoutWhitespace(s) == SelectSeq(s, LAMBDA ch : ch \notin RegExpWhitespace)

\* The places of s that have a run of whitespace, a place being the number of
\* characters other than whitespace before it: 0 is the place of a leading run.
WhitespaceRunPlaces(s) ==
    {Cardinality({j \in 1..(i - 1) : s[j] \notin RegExpWhitespace}) :
        i \in {k \in 1..Len(s) : s[k] \in RegExpWhitespace}}

\* C8 as stated: two strings that are the same without their whitespace,
\* whether or not a run of one is absent in the other, compare equivalent.
EquivalentWhenSameWithoutWhitespace ==
    (equivalence # NoCall
       /\ WithoutWhitespace(equivalence.actual) = WithoutWhitespace(equivalence.expected))
    => equivalence.result

\* C8: two strings that are the same without their whitespace compare equivalent
\* when every run of whitespace of one stands where the other has a run too,
\* leading and trailing runs included, and compare different otherwise.
EquivalentWhenSameRunPlaces ==
    (equivalence # NoCall
       /\ WithoutWhitespace(equivalence.actual) = WithoutWhitespace(equivalence.expected))
    => (equivalence.result <=>
          WhitespaceRunPlaces(equivalence.actual) = WhitespaceRunPlaces(equivalence.expected))

\* C8 witness: two strings of different lengths compared equivalent, both with a
\* leading run, of different characters.
EquivalentWhenSameRunPlacesWitness ==
    /\ equivalence # NoCall
    /\ equivalence.result
    /\ Len(equivalence.actual) > Len(equivalence.expected)
    /\ WithoutWhitespace(equivalence.actual) # <<>>
    /\ 0 \in WhitespaceRunPlaces(equivalence.actual)
    /\ equivalence.actual[1] # equivalence.expected[1]

(***************************************************************************)
(* Claims about generateReviewFileContent and _getAedocSynopsis.           *)
(***************************************************************************)
\* The declarations of the exported entities of a collector: <<e, k>> is
\* declaration k of entity e.
ExportedDeclarations(collector) ==
    UNION {{<<e, k>> : k \in 1..Len(collector.entities[e].astSymbol.astDeclarations)} :
             e \in {x \in 1..Len(collector.entities) : collector.entities[x].exported}}

\* Every declaration of a collector, exported or not.
AllDeclarations(collector) ==
    UNION {{<<e, k>> : k \in 1..Len(collector.entities[e].astSymbol.astDeclarations)} :
             e \in 1..Len(collector.entities)}

\* Declaration p comes before declaration q: in an earlier entity, or earlier in
\* the astDeclarations of the same entity.
ComesBefore(p, q) == p[1] < q[1] \/ (p[1] = q[1] /\ p[2] < q[2])

\* The synopsis of declaration p of a collector.
SynopsisOf(collector, p) ==
    GetAedocSynopsis(collector.entities[p[1]].astSymbol.astDeclarations[p[2]],
                     collector.entities[p[1]].astSymbol.metadata)

\* C9: the output has one block for every declaration of every exported entity
\* and no other block, the blocks ordered by entity and then by declaration;
\* a block is the synopsis, the modified span text and two newline characters.
ReviewBlocksInOrder ==
    review # NoCall =>
        LET collector == review.collector
            output == review.output
            exported == ExportedDeclarations(collector)
            blocks == Cardinality(exported)
        IN  /\ Len(output) >= 3 * blocks
            /\ \A p \in exported :
                   LET b == 1 + Cardinality({q \in exported : ComesBefore(q, p)})
                   IN  /\ output[3 * b - 2] = SynopsisOf(collector, p)
                       /\ output[3 * b - 1] = ModifiedText(p[1], p[2])
                       /\ output[3 * b] = <<"\n", "\n">>
            /\ \A i \in (3 * blocks + 1)..Len(output) :
                   \A p \in AllDeclarations(collector) : output[i] # ModifiedText(p[1], p[2])

\* C9 witness: a collector whose first entity has a declaration and is not
\* exported and whose second entity is exported and has two declarations, with
\* different synopses.
ReviewBlocksInOrderWitness ==
    /\ review # NoCall
    /\ Len(review.collector.entities) >= 2
    /\ ~review.collector.entities[1].exported
    /\ Len(review.collector.entities[1].astSymbol.astDeclarations) >= 1
    /\ review.collector.entities[2].exported
    /\ Len(review.collector.entities[2].astSymbol.astDeclarations) = 2
    /\ SynopsisOf(review.collector, <<2, 1>>) # SynopsisOf(review.collector, <<2, 2>>)
    /\ Len(review.output) >= 6

\* The tokens of a synopsis, in the order they are claimed to appear in.
SynopsisTokens ==
    <<"@internal", "@alpha", "@beta", "@public", "@sealed", "@virtual", "@override",
      "@eventproperty", "@deprecated", "(undocumented)">>

\* Whether a token applies to a declaration with these metadata.
TokenApplies(token, declarationMetadata, symbolMetadata) ==
    CASE token = "@internal" ->
             ~symbolMetadata.releaseTagSameAsParent /\ symbolMetadata.releaseTag = "Internal"
      [] token = "@alpha" ->
             ~symbolMetadata.releaseTagSameAsParent /\ symbolMetadata.releaseTag = "Alpha"
      [] token = "@beta" ->
             ~symbolMetadata.releaseTagSameAsParent /\ symbolMetadata.releaseTag = "Beta"
      [] token = "@public" ->
             ~symbolMetadata.releaseTagSameAsParent /\ symbolMetadata.releaseTag = "Public"
      [] token = "@sealed" -> declarationMetadata.isSealed
      [] token = "@virtual" -> declarationMetadata.isVirtual
      [] token = "@override" -> declarationMetadata.isOverride
      [] token = "@eventproperty" -> declarationMetadata.isEventProperty
      [] token = "@deprecated" -> declarationMetadata.tsdocComment = "deprecated"
      [] token = "(undocumented)" -> declarationMetadata.needsDocumentation

\* C10: the synopsis is empty when no token applies; otherwise it is "// ", the
\* tokens that apply, each once, in the claimed order and one space between
\* two, and a newline.
SynopsisIsOrderedTokenLine ==
    synopsis # NoCall =>
        LET result == synopsis.result
            applying == {t \in 1..Len(SynopsisTokens) :
                           TokenApplies(SynopsisTokens[t], synopsis.declarationMetadata,
                                        synopsis.symbolMetadata)}
            count == Cardinality(applying)
        IN  IF count = 0 THEN result = <<>>
            ELSE /\ Len(result) = 2 * count + 1
                 /\ result[1] = "// "
                 /\ result[Len(result)] = "\n"
                 /\ \A i \in 1..(count - 1) : result[2 * i + 1] = " "
                 /\ \A i \in 1..count :
                        \E t \in applying :
                            /\ result[2 * i] = SynopsisTokens[t]
                            /\ Cardinality({u \in applying : u < t}) = i - 1

\* C10 witness: the synopsis of a declaration whose release tag differs from its
\* parent's and that is sealed, virtual, deprecated and undocumented.
SynopsisIsOrderedTokenLineWitness ==
    /\ synopsis # NoCall
    /\ synopsis.symbolMetadata = [releaseTag |-> "Beta", releaseTagSameAsParent |-> FALSE]
    /\ synopsis.declarationMetadata.isSealed
    /\ synopsis.declarationMetadata.isVirtual
    /\ synopsis.declarationMetadata.tsdocComment = "deprecated"
    /\ synopsis.declarationMetadata.needsDocumentation
    /\ Len(synopsis.result) >= 11

\* The release tag tokens.
ReleaseTagTokens == {"@internal", "@alpha", "@beta", "@public"}

\* The block of the output that holds the text of declaration k of entity e:
\* block b is the strings 3b-2 (synopsis), 3b-1 (text) and 3b (two newlines).
BlocksOf(output, e, k) ==
    {b \in 1..(Len(output) \div 3) : output[3 * b - 1] = ModifiedText(e, k)}

\* The release tag tokens in the synopsis of block b.
ReleaseTagsOfBlock(output, b) == Range(output[3 * b - 2]) \cap ReleaseTagTokens

\* The exported entities of the last review with a release tag and two
\* declarations or more.
MergedTaggedEntities ==
    {e \in 1..Len(review.collector.entities) :
        /\ review.collector.entities[e].exported
        /\ review.collector.entities[e].astSymbol.metadata.releaseTag # "None"
        /\ Len(review.collector.entities[e].astSymbol.astDeclarations) >= 2}

\* C11 as stated: of the blocks of a symbol with a release tag and two
\* declarations, the first shows the tag and the later ones do not.
ReleaseTagOnFirstBlockOnly ==
    review # NoCall =>
        \A e \in MergedTaggedEntities :
            \A k \in 1..Len(review.collector.entities[e].astSymbol.astDeclarations) :
                \A b \in BlocksOf(review.output, e, k) :
                    (ReleaseTagsOfBlock(review.output, b) # {}) <=> (k = 1)

\* C11: of the blocks of a symbol with a release tag and two declarations, every
\* one shows the tag when the symbol's releaseTagSameAsParent is false, and none
\* does when it is true: the flag is the symbol's, the same for all its blocks.
ReleaseTagOnEveryBlock ==
    review # NoCall =>
        \A e \in MergedTaggedEntities :
            \A k \in 1..Len(review.collector.entities[e].astSymbol.astDeclarations) :
                /\ BlocksOf(review.output, e, k) # {}
                /\ \A b \in BlocksOf(review.output, e, k) :
                     (ReleaseTagsOfBlock(review.output, b) # {})
                       <=> ~review.collector.entities[e].astSymbol.metadata.releaseTagSameAsParent

\* C11 witness: a review with a symbol of two declarations whose tag is shown and
\* a symbol of two declarations whose tag is the same as its parent's.
ReleaseTagOnEveryBlockWitness ==
    /\ review # NoCall
    /\ \E e \in MergedTaggedEntities :
          ~review.collector.entities[e].astSymbol.metadata.releaseTagSameAsParent
    /\ \E e \in MergedTaggedEntities :
          review.collector.entities[e].astSymbol.metadata.releaseTagSameAsParent

\* C12: the blocks of the declarations of one exported symbol are consecutive, in
\* the order of the declarations, and show the same release tag token: all of
\* them the tag, or none of them.
SymbolBlocksConsecutiveSameTag ==
    review # NoCall =>
        \A e \in 1..Len(review.collector.entities) :
            review.collector.entities[e].exported =>
                LET count == Len(review.collector.entities[e].astSymbol.astDeclarations)
                IN  /\ \A k \in 1..count : Cardinality(BlocksOf(review.output, e, k)) = 1
                    /\ \A k \in 1..(count - 1) :
                         BlocksOf(review.output, e, k + 1)
                           = {b + 1 : b \in BlocksOf(review.output, e, k)}
                    /\ \A k, l \in 1..count :
                         \A b \in BlocksOf(review.output, e, k) :
                           \A c \in BlocksOf(review.output, e, l) :
                             ReleaseTagsOfBlock(review.output, b)
                               = ReleaseTagsOfBlock(review.output, c)

\* C12 witness: an exported symbol with a shown tag and two declarations of
\* different synopses, after an exported symbol with a declaration.
SymbolBlocksConsecutiveSameTagWitness ==
    /\ review # NoCall
    /\ Len(review.collector.entities) >= 2
    /\ review.collector.entities[1].exported
    /\ Len(review.collector.entities[1].astSymbol.astDeclarations) >= 1
    /\ 2 \in MergedTaggedEntities
    /\ SynopsisOf(review.collector, <<2, 1>>) # SynopsisOf(review.collector, <<2, 2>>)
    /\ \E b \in BlocksOf(review.output, 2, 1) : ReleaseTagsOfBlock(review.output, b) # {}

\* The line that reports a package without documentation comment.
NoPackageDocumentationLine == <<"// ">> \o NoPackageDocumentation \o <<"\n">>

\* The places of the text where the line starts.
PlacesOfNoPackageDocumentationLine(text) ==
    {i \in 1..(Len(text) - 2) : SubSeq(text, i, i + 2) = NoPackageDocumentationLine}

\* C13: the text of the review ends with the line about the missing package
\* documentation exactly when the package's tsdocComment is undefined; the line
\* is then there once, after a line end and after the text of every declaration.
NoPackageDocumentationLineIffUndefined ==
    review # NoCall =>
        LET text == review.result
            places == PlacesOfNoPackageDocumentationLine(text)
        IN  IF review.collector.packageTsdocComment = "undefined"
            THEN /\ places = {Len(text) - 2}
                 /\ text[Len(text) - 3] = "\n"
                 /\ \A p \in AllDeclarations(review.collector) :
                        \A i \in 1..Len(text) :
                            <<text[i]>> = ModifiedText(p[1], p[2]) => i < Len(text) - 3
            ELSE places = {}

\* C13 witness: the review of a package without documentation comment, with the
\* blocks of two exported entities.
NoPackageDocumentationLineIffUndefinedWitness ==
    /\ review # NoCall
    /\ review.collector.packageTsdocComment = "undefined"
    /\ Cardinality({p[1] : p \in ExportedDeclarations(review.collector)}) >= 2
    /\ Len(review.result) > 3

(***************************************************************************)
(* Sorted emission (Span._writeModifiedText).  The characters of the       *)
(* source are pairwise distinct, so the characters of a child's own range  *)
(* tell where the child is in an emitted text.                             *)
(***************************************************************************)
\* The characters of the node of the span, its separator not included.
OwnCharacters(n) == {CharacterAt(i) : i \in spans[n].startIndex..(spans[n].endIndex - 1)}

\* The text without the characters outside the set.
Restrict(text, characters) == SelectSeq(text, LAMBDA ch : ch \in characters)

\* The places of the text that hold a character of the set.
PlacesOf(text, characters) == {i \in 1..Len(text) : text[i] \in characters}

\* Every place of the first set is before every place of the second set.
AllBefore(first, second) == \A i \in first : \A j \in second : i < j

\* The span has sortChildren and at least two children.
SortsChildren(n) == modification[n].sortChildren /\ Len(Children(n)) >= 2

\* The span has a sort key.
HasSortKey(n) == modification[n].sortKey # <<>>

\* The text of the span holds what each child writes of its own characters,
\* once, and the children with a key are in non-decreasing order of their keys.
EmitsChildrenOnceByKey(n) ==
    LET text == GetModifiedText(n)
        kids == Range(Children(n))
    IN  /\ \A c \in kids :
            Restrict(text, OwnCharacters(c)) = Restrict(GetModifiedText(c), OwnCharacters(c))
        /\ \A c, d \in kids :
            (HasSortKey(c) /\ HasSortKey(d)
                /\ StringLess(modification[c].sortKey[1], modification[d].sortKey[1]))
            => AllBefore(PlacesOf(text, OwnCharacters(c)), PlacesOf(text, OwnCharacters(d)))

\* C17 as stated: whenever a span has sortChildren and at least two children,
\* its modified text holds every child once, the children with a key in
\* non-decreasing order of their keys.
SortedEmissionIsOrderedPermutation ==
    \A n \in 1..Len(spans) : SortsChildren(n) => EmitsChildrenOnceByKey(n)

\* C17: when a span has sortChildren, at least two children and does not omit
\* its children, its modified text holds every child once, the children with a
\* key in non-decreasing lexicographic order of their keys.
SortedEmissionIsOrderedPermutationUnlessOmitted ==
    \A n \in 1..Len(spans) :
        (SortsChildren(n) /\ ~modification[n].omitChildren) => EmitsChildrenOnceByKey(n)

\* C17 witness: a sorted span whose first child, in source order, has a greater
\* key than a later child, both children being written.
SortedEmissionIsOrderedPermutationWitness ==
    \E n \in 1..Len(spans) :
        /\ SortsChildren(n) /\ ~modification[n].omitChildren
        /\ \E i, j \in 1..Len(Children(n)) :
            LET c == Children(n)[i]
                d == Children(n)[j]
            IN  /\ i < j /\ HasSortKey(c) /\ HasSortKey(d)
                /\ StringLess(modification[d].sortKey[1], modification[c].sortKey[1])
                /\ PlacesOf(GetModifiedText(n), OwnCharacters(c)) # {}
                /\ PlacesOf(GetModifiedText(n), OwnCharacters(d)) # {}

\* The span writes its children sorted: sortChildren, at least two children, and
\* the children are not omitted.
IsSortedEmission(n) == SortsChildren(n) /\ ~modification[n].omitChildren

\* C18: in the sorted emission of a span, of two children with identical sort
\* keys the one that is first in the source is written first.
EqualKeysKeepSourceOrder ==
    \A n \in 1..Len(spans) :
        IsSortedEmission(n) =>
            \A i, j \in 1..Len(Children(n)) :
                LET c == Children(n)[i]
                    d == Children(n)[j]
                IN  (i < j /\ modification[c].sortKey = modification[d].sortKey)
                    => AllBefore(PlacesOf(GetModifiedText(n), OwnCharacters(c)),
                                 PlacesOf(GetModifiedText(n), OwnCharacters(d)))

\* C18 witness: a sorted emission that writes two children of one and the same
\* key.
EqualKeysKeepSourceOrderWitness ==
    \E n \in 1..Len(spans) :
        /\ IsSortedEmission(n)
        /\ \E i, j \in 1..Len(Children(n)) :
            LET c == Children(n)[i]
                d == Children(n)[j]
            IN  /\ i < j /\ HasSortKey(c)
                /\ modification[c].sortKey = modification[d].sortKey
                /\ PlacesOf(GetModifiedText(n), OwnCharacters(c)) # {}
                /\ PlacesOf(GetModifiedText(n), OwnCharacters(d)) # {}

IsSkipped(n) ==
    /\ modification[n].omitChildren /\ modification[n].omitSeparatorAfter
    /\ modification[n]._prefix = << <<>> >> /\ modification[n]._suffix = << <<>> >>

\* The separatorOverride that the span receives when the tree is written from
\* its root: from a parent that sorts its children, the last inner separator of
\* the parent's first child, or of its last child for the child written last;
\* from another parent, the parent's own override for its last child when the
\* parent has no separator.
RECURSIVE SeparatorOverrideAt(_)
SeparatorOverrideAt(n) ==
    LET parent == nodes[n].parent
    IN  IF parent = 0 THEN <<>>
        ELSE IF SortsChildren(parent)
        THEN IF n = Last(SortedChildren(parent))
             THEN GetLastInnerSeparator(Last(Children(parent)))
             ELSE GetLastInnerSeparator(Children(parent)[1])
        ELSE IF n = Last(Children(parent)) /\ Separator(parent) = <<>>
        THEN SeparatorOverrideAt(parent)
        ELSE <<>>

\* C20 as stated: a span on which skipAll() was called writes the empty string,
\* whatever separator override it receives from its parent.
SkippedSpanWritesNothing ==
    \A n \in 1..Len(spans) :
        IsSkipped(n) => WriteModifiedText(n, SeparatorOverrideAt(n)) = <<>>

(***************************************************************************)
(* _modifySpan, as seen in the text written for the declaration.           *)
(***************************************************************************)
\* _modifySpan has returned for the root span of the declaration.
ModifySpanReturned == modifySpanCall # NoCall /\ ~modifySpanCall.threw

\* The span is written when the root is: no span above it omits its children.
RECURSIVE IsWritten(_)
IsWritten(n) ==
    Parent(n) = 0 \/ (~modification[Parent(n)].omitChildren /\ IsWritten(Parent(n)))

\* The identifiers that are written, and those of them that resolve to an entity.
WrittenIdentifiers == {n \in 1..Len(spans) : Kind(n) = "Identifier" /\ IsWritten(n)}

RenamedIdentifiers == {n \in WrittenIdentifiers : declaration.resolution[n] # <<>>}

\* The text of the source that the node of the span covers.
SourceTextOf(n) == GetSubstring(spans[n].startIndex, spans[n].endIndex)

\* C14: once _modifySpan has returned, every identifier that is written, at any
\* depth, and resolves to an entity of the collector is written as the entity's
\* nameForEmit and none of its source text is; every other identifier is written
\* as in the source.
IdentifiersEmittedByNameForEmit ==
    ModifySpanReturned =>
        /\ \A n \in RenamedIdentifiers :
            /\ GetModifiedText(n) = declaration.resolution[n][1].nameForEmit[1] \o Separator(n)
            /\ PlacesOf(GetModifiedText(1), OwnCharacters(n)) = {}
        /\ \A n \in WrittenIdentifiers \ RenamedIdentifiers :
            /\ GetModifiedText(n) = GetText(n)
            /\ Restrict(GetModifiedText(1), OwnCharacters(n)) = SourceTextOf(n)
        /\ \A name \in {declaration.resolution[n][1].nameForEmit[1] : n \in RenamedIdentifiers} :
            Cardinality(PlacesOf(GetModifiedText(1), Range(name)))
              = Cardinality({n \in RenamedIdentifiers :
                               declaration.resolution[n][1].nameForEmit[1] = name})

\* C14 witness: a declaration is written with a renamed identifier below a child
\* of the root, and with an identifier that resolves to no entity.
IdentifiersEmittedByNameForEmitWitness ==
    /\ ModifySpanReturned
    /\ \E n \in RenamedIdentifiers : Parent(n) # 0 /\ Parent(Parent(n)) # 0
    /\ WrittenIdentifiers \ RenamedIdentifiers # {}

\* The places of the text that hold the word declare: the word that _modifySpan
\* puts in, or a word declare of the source file.
PlacesOfDeclare(text) ==
    {i \in 1..Len(text) : <<text[i]>> = DeclareText \/ text[i] \in declaration.declareWords}

\* The text of the source from the start of the enclosing declaration list to
\* its first declaration: the keyword var, let or const and the blank after it.
ListPrefix == GetSubstring(declaration.list[1], declaration.list[2])

NestedVariableDeclarations ==
    {n \in 1..Len(spans) : Kind(n) = "VariableDeclaration" /\ Parent(n) # 0}

\* C15: once _modifySpan has returned, a VariableDeclaration that is the root of
\* the block is written as 'declare ', the text of the source from the start of
\* the enclosing list to its first declaration, the declaration, and ';' in the
\* place of its suffix; the word declare is there once.  A VariableDeclaration
\* that has a parent gets neither the word nor the ';': its suffix is not
\* changed, and its prefix only gets the synopsis of the declaration.
RootVariableDeclarationDeclaredOnce ==
    ModifySpanReturned =>
        /\ Kind(1) = "VariableDeclaration" =>
            LET text == GetModifiedText(1)
                head == Len(DeclareText) + Len(ListPrefix)
            IN  /\ ModificationPrefix(1) = DeclareText \o ListPrefix \o Prefix(1)
                /\ ModificationSuffix(1) = SemicolonText
                /\ SubSeq(text, 1, head) = DeclareText \o ListPrefix
                /\ SubSeq(text, Len(text), Len(text)) = SemicolonText
                /\ \A n \in WrittenIdentifiers \ RenamedIdentifiers :
                     \A i \in PlacesOf(text, OwnCharacters(n)) : head < i /\ i < Len(text)
                /\ Cardinality(PlacesOfDeclare(text)) = 1
        /\ \A n \in NestedVariableDeclarations :
            /\ modification[n]._suffix = <<>>
            /\ PlacesOfDeclare(ModificationPrefix(n)) = {}
            /\ \E inserted \in Synopses :
                 ModificationPrefix(n) = AddIndentAfterNewlines(inserted, GetIndent(n)) \o Prefix(n)

\* C15 witness: the declaration of a variable of a source file that has the word
\* declare before the list is written, with its name kept.
RootVariableDeclarationDeclaredOnceWitness ==
    /\ ModifySpanReturned
    /\ Kind(1) = "VariableDeclaration"
    /\ declaration.declareWords # {}
    /\ ListPrefix # <<>>
    /\ WrittenIdentifiers \ RenamedIdentifiers # {}

\* _modifySpan is called on the span: the recursion stops at a JSDocComment.
RECURSIVE IsVisited(_)
IsVisited(n) ==
    Parent(n) = 0 \/ (Kind(Parent(n)) # "JSDocComment" /\ IsVisited(Parent(n)))

\* The SyntaxList spans under an API declaration or under a ModuleBlock on which
\* _modifySpan is called.
MemberLists ==
    {n \in 1..Len(spans) :
        /\ Kind(n) = "SyntaxList" /\ IsVisited(n) /\ Parent(n) # 0
        /\ (IsAstDeclaration(Kind(Parent(n))) \/ Kind(Parent(n)) = "ModuleBlock")}

\* Of the children of the list, those that are API declarations have the sort
\* key of their local name, and the others have no sort key.
KeysOnDeclarationsOnly(n) ==
    \A c \in Range(Children(n)) :
        modification[c].sortKey =
            IF IsAstDeclaration(Kind(c))
            THEN << GetSortKeyIgnoringUnderscore(declaration.localName[c]) >>
            ELSE <<>>

\* C16 as stated: once _modifySpan has returned, every SyntaxList under an API
\* declaration or a ModuleBlock has sortChildren, and its children that are API
\* declarations, and no other child, have the sort key of their local name.
EveryMemberListSorted ==
    ModifySpanReturned =>
        \A n \in MemberLists : modification[n].sortChildren /\ KeysOnDeclarationsOnly(n)

\* C16: once _modifySpan has returned, a SyntaxList under an API declaration or a
\* ModuleBlock has sortChildren exactly when one of its children is an API
\* declaration; its children that are API declarations, and no other child, have
\* the sort key of their local name.
MemberListSortedWhenItHasDeclarations ==
    ModifySpanReturned =>
        \A n \in MemberLists :
            /\ modification[n].sortChildren
                 <=> (\E c \in Range(Children(n)) : IsAstDeclaration(Kind(c)))
            /\ KeysOnDeclarationsOnly(n)

\* C16 witness: a list under a ModuleBlock is sorted, with a child that is an API
\* declaration and has its key and a child that is none and has no key.
MemberListSortedWhenItHasDeclarationsWitness ==
    /\ ModifySpanReturned
    /\ \E n \in MemberLists :
        /\ Kind(Parent(n)) = "ModuleBlock"
        /\ modification[n].sortChildren
        /\ \E c, d \in Range(Children(n)) :
            /\ modification[c].sortKey # <<>>
            /\ ~IsAstDeclaration(Kind(d)) /\ modification[d].sortKey = <<>>

(***************************************************************************)
(* The separators of a sorted emission.                                    *)
(***************************************************************************)
\* What the span writes of itself, its trailing separator left out: its
\* modified text without the characters of its last inner separator.
TextBeforeSeparator(n) ==
    SelectSeq(GetModifiedText(n), LAMBDA ch : ch \notin Range(GetLastInnerSeparator(n)))

\* The sorted children, each followed by the last inner separator of the first
\* child in source order, and the last of them by that of the last child.
RECURSIVE SortedChildrenWithSeparators(_, _, _)
SortedChildrenWithSeparators(n, sortedChildren, i) ==
    IF i > Len(sortedChildren) THEN <<>>
    ELSE TextBeforeSeparator(sortedChildren[i])
           \o (IF i < Len(sortedChildren)
               THEN GetLastInnerSeparator(Children(n)[1])
               ELSE GetLastInnerSeparator(Last(Children(n))))
           \o SortedChildrenWithSeparators(n, sortedChildren, i + 1)

\* The span and the spans below it.
RECURSIVE SpansBelow(_)
SpansBelow(n) == {n} \cup UNION {SpansBelow(c) : c \in Range(Children(n))}

\* No child of the span, and no span below a child, omits or sorts its children.
ChildrenWrittenPlainly(n) ==
    \A c \in Range(Children(n)) :
        \A d \in SpansBelow(c) : ~modification[d].omitChildren /\ ~modification[d].sortChildren

\* C24 as stated, for children that are written without omission or sorting of
\* their own: in a sorted emission every sorted child but the last is followed
\* by the last inner separator of the first child in source order, and the last
\* sorted child by that of the last child in source order, also when it is
\* empty; the separator is written once, in the place of the child's own.
SortedChildrenSeparatedByFirstAndLast ==
    \A n \in 1..Len(spans) :
        (IsSortedEmission(n) /\ ChildrenWrittenPlainly(n)) =>
            GetModifiedText(n)
              = ModificationPrefix(n)
                  \o SortedChildrenWithSeparators(n, SortedChildren(n), 1)
                  \o ModificationSuffix(n)
                  \o (IF modification[n].omitSeparatorAfter THEN <<>> ELSE Separator(n))

(***************************************************************************)
(* The text that a span writes after its suffix.                           *)
(***************************************************************************)
\* The overrides with which the span is written: none, when getModifiedText is
\* called on it, and the one it receives when the tree is written from the root.
OverridesOf(n) == { <<>>, SeparatorOverrideAt(n) }

\* What the span is to write after its suffix.
TrailingText(n, separatorOverride) ==
    IF separatorOverride # <<>> /\ (Separator(n) # <<>> \/ Children(n) = <<>>)
    THEN separatorOverride
    ELSE IF modification[n].omitSeparatorAfter THEN <<>> ELSE Separator(n)

\* C25: what a span writes ends with its trailing text, which is the inherited
\* separatorOverride when one is active (not empty) and the span has a separator
\* or is a leaf, and otherwise the span's own separator unless omitSeparatorAfter
\* is set; before that, the span writes its own separator nowhere, and writes
\* the override nowhere when the trailing text is the override.
TrailingTextIsOverrideOrSeparator ==
    \A n \in 1..Len(spans) :
        \A separatorOverride \in OverridesOf(n) :
            LET text == WriteModifiedText(n, separatorOverride)
                trailing == TrailingText(n, separatorOverride)
                before == SubSeq(text, 1, Len(text) - Len(trailing))
            IN  /\ Len(text) >= Len(trailing)
                /\ SubSeq(text, Len(text) - Len(trailing) + 1, Len(text)) = trailing
                /\ PlacesOf(before, Range(Separator(n))) = {}
                /\ (trailing = separatorOverride) => PlacesOf(before, Range(separatorOverride)) = {}

\* C25 witness: under one sorted parent, a leaf without separator that receives
\* an override, a span with a separator that receives a different override, and
\* a span with a separator that is written without override.
TrailingTextIsOverrideOrSeparatorWitness ==
    /\ \E n \in 1..Len(spans) :
        SeparatorOverrideAt(n) # <<>> /\ Children(n) = <<>> /\ Separator(n) = <<>>
    /\ \E n \in 1..Len(spans) :
        /\ SeparatorOverrideAt(n) # <<>> /\ Separator(n) # <<>>
        /\ SeparatorOverrideAt(n) # Separator(n)
    /\ \E n \in 1..Len(spans) :
        SeparatorOverrideAt(n) = <<>> /\ Separator(n) # <<>>

(***************************************************************************)
(* getModifiedText on a tree without modifications.                        *)
(***************************************************************************)
\* Every span's modification is as reset() leaves it, which is also how the
\* constructor leaves it.
EveryModificationReset ==
    \A n \in 1..Len(spans) : modification[n] = ResetModification

\* C26: on a span tree whose modifications are all as the constructor or
\* reset() leaves them, getModifiedText() of every span is its getText().
ModifiedTextOfResetTreeIsText ==
    EveryModificationReset =>
        \A n \in 1..Len(spans) : GetModifiedText(n) = GetText(n)

\* C26 witness: a tree with nested spans and separators on which two
\* modifications have been made and every modification is reset again.
ModifiedTextOfResetTreeIsTextWitness ==
    /\ EveryModificationReset
    /\ modificationCount >= 2
    /\ \E n \in 1..Len(spans) : Children(n) # <<>> /\ Separator(n) # <<>>
    /\ \A n \in 1..Len(spans) : GetModifiedText(n) = GetText(n)

(***************************************************************************)
(* getModifiedText leaves the span tree as it was.                         *)
(***************************************************************************)
\* C27: a call of getModifiedText() changes neither the nodes, which hold the
\* order of every span's children and the text that getText() returns, nor a
\* span's indexes and separator, nor a modification; and in every state after
\* the call getModifiedText() is again the text that the call returned.
GetModifiedTextLeavesTreeUnchanged ==
    /\ [][ (modifiedText = NoCall /\ modifiedText'.op = "getModifiedText") =>
                /\ nodes' = nodes
                /\ spans' = spans
                /\ modification' = modification
                /\ modifiedText'.arg = GetModifiedText(RootSpan) ]_vars
    /\ [](modifiedText.op = "getModifiedText" =>
                GetModifiedText(modifiedText.target) = modifiedText.arg)

\* C27 witness: getModifiedText() has returned a text with the children of a
\* span written in another order than that of the tree.
GetModifiedTextLeavesTreeUnchangedWitness ==
    /\ modifiedText # NoCall
    /\ LET n == modifiedText.target
       IN  /\ modification[n].sortChildren /\ ~modification[n].omitChildren
           /\ SortedChildren(n) # Children(n)
           /\ modifiedText.arg # GetText(n)
           /\ modifiedText.arg = GetModifiedText(n)

(***************************************************************************)
(* Claims about the members of a container and its lookups.                *)
(***************************************************************************)
\* The items that addMember has added to the container: addMember is the only
\* assignment of an item's parent.
AddedMembers(c) == {m \in ApiItemIds : apiItems[m].parent = c}

\* The list holds each element once.
HasNoDuplicates(list) == Cardinality(Range(list)) = Len(list)

\* C21: what the members getter returns is the container's list, holds every
\* member added to the container exactly once, and is in non-decreasing order
\* of getSortKey(), whatever reads and additions came before.
MembersSortedAndComplete ==
    apiCall.op = "members" =>
        LET c == apiCall.target
            returned == apiCall.arg
        IN  /\ returned = apiItems[c].members
            /\ Range(returned) = AddedMembers(c)
            /\ HasNoDuplicates(returned)
            /\ \A i, j \in 1..Len(returned) :
                  i < j => LocaleCompare(GetSortKey(returned[i]), GetSortKey(returned[j])) <= 0

\* C21 witness: the getter has returned three members, of which two have the
\* same sort key and one a smaller key.
MembersSortedAndCompleteWitness ==
    /\ apiCall.op = "members"
    /\ Len(apiCall.arg) = 3
    /\ GetSortKey(apiCall.arg[1]) # GetSortKey(apiCall.arg[2])
    /\ GetSortKey(apiCall.arg[2]) = GetSortKey(apiCall.arg[3])

\* C28: a call of addMember that throws leaves every item as it was: the
\* container's list, its index of canonical references, its lookup by name and
\* its sorted flag, and the parent of the member.
ThrowingAddMemberChangesNothing ==
    [][ (apiCall'.op = "addMember" /\ apiCall'.threw) => apiItems' = apiItems ]_vars

\* C28 witness: addMember has thrown for a member that has a parent and whose
\* canonical reference the container does not have, on a container that has
\* members, has been sorted and has a lookup by name.
ThrowingAddMemberChangesNothingWitness ==
    /\ apiCall.op = "addMember" /\ apiCall.threw
    /\ apiItems[apiCall.arg].parent # 0
    /\ TryGetMember(apiCall.target, CanonicalReference(apiCall.arg)) = 0
    /\ apiItems[apiCall.target].members # <<>>
    /\ apiItems[apiCall.target].membersSorted = <<TRUE>>
    /\ apiItems[apiCall.target].membersByName # <<>>

\* C29: in every container no two members have the same canonical reference,
\* tryGetMember(r) is m exactly when m is in the list and has the canonical
\* reference r (and undefined when no member has it), and the parent of every
\* member is the container.
IndexAndMembersAgree ==
    \A c \in ApiItemIds :
        LET members == apiItems[c].members
        IN  /\ \A i, j \in 1..Len(members) :
                  i # j => CanonicalReference(members[i]) # CanonicalReference(members[j])
            /\ \A r \in CanonicalReferences, m \in ApiItemIds :
                  TryGetMember(c, r) = m <=> (m \in Range(members) /\ CanonicalReference(m) = r)
            /\ \A r \in CanonicalReferences :
                  TryGetMember(c, r) = 0 <=> (\A m \in Range(members) : CanonicalReference(m) # r)
            /\ \A m \in Range(members) : apiItems[m].parent = c

\* C29 witness: a container with two members, on which addMember has thrown
\* for an item with the canonical reference of one of them.
IndexAndMembersAgreeWitness ==
    /\ apiCall.op = "addMember" /\ apiCall.threw
    /\ Len(apiItems[apiCall.target].members) >= 2
    /\ apiItems[apiCall.arg].parent = 0
    /\ TryGetMember(apiCall.target, CanonicalReference(apiCall.arg)) \notin {0, apiCall.arg}

\* The members of the container that have the name.
MembersNamed(c, name) == {m \in Range(apiItems[c].members) : ApiItemTable[m].name = name}

\* C30: what findMembersByName(n) returns holds exactly the members of the
\* container whose name is n, each once, and a lookup by name that a container
\* has holds for every name exactly the members of that name.
FindMembersByNameIsCurrent ==
    /\ apiCall.op = "findMembersByName" =>
          /\ Range(apiCall.arg[2]) = MembersNamed(apiCall.target, apiCall.arg[1])
          /\ HasNoDuplicates(apiCall.arg[2])
    /\ \A c \in ApiItemIds :
          apiItems[c].membersByName # <<>> =>
              \A name \in ApiItemNames :
                  /\ Range(apiItems[c].membersByName[1][name]) = MembersNamed(c, name)
                  /\ HasNoDuplicates(apiItems[c].membersByName[1][name])

\* C30 witness: findMembersByName has returned two members, and the container
\* has a third of another name.
FindMembersByNameIsCurrentWitness ==
    /\ apiCall.op = "findMembersByName"
    /\ Len(apiCall.arg[2]) = 2
    /\ Len(apiItems[apiCall.target].members) = 3

(***************************************************************************)
(* The getters of an AstDeclaration before and after the analysis.         *)
(***************************************************************************)
\* The declarations that were constructed with d as their parent.
DeclarationsWithParent(d) ==
    {c \in 1..Len(astDeclarations) : astDeclarations[c].parent = d}

ExitCodeTellsProcessProjectFailed ==
    (execution.op = "onExecute" /\ ~execution.threw) =>
        /\ exitCode = 1 <=> execution.arg.processProject = "false"
        /\ execution.arg.processProject = "true" => exitCode = 0

\* C23 witness: onExecute has found a configuration file in ./config, has
\* returned, and processProject returned false.
ExitCodeTellsProcessProjectFailedWitness ==
    /\ execution.op = "onExecute" /\ ~execution.threw
    /\ ~execution.arg.configFile /\ execution.arg.inConfigFolder
    /\ execution.arg.processProject = "false"
    /\ exitCode = 1


=============================================================================
